---- MODULE Spec2Model ----
(***************************************************************************)
(* Upload ingestion core of Backend/app.py: the sliding-window rate        *)
(* limiter, the schema validator / sanitizer and the ingest handler.       *)
(*                                                                         *)
(* Text is a sequence of one-character strings, so that trimming,          *)
(* replacing and parsing are computed character by character.  A raw JSON  *)
(* value is a record: [k |-> "null"], [k |-> "str", s |-> text] or         *)
(* [k |-> "num", s |-> text] (a JSON number, s being what str() prints).   *)
(***************************************************************************)
EXTENDS Integers, Sequences, FiniteSets, TLC

(***************************************************************************)
(* Program constants.                                                      *)
(***************************************************************************)
UPLOAD_RATE_LIMIT == 3
UPLOAD_RATE_WINDOW_SECONDS == 60
MAX_UPLOAD_ROWS == 11
MAX_STRING_LENGTH == 255
PREVIEW_ROWS == 10

UPLOAD_SCHEMA ==
    << [key |-> "Invoice",      type |-> "int",   required |-> TRUE],
       [key |-> "CustomerID",   type |-> "int",   required |-> TRUE],
       [key |-> "CustomerName", type |-> "str",   required |-> TRUE],
       [key |-> "Amount",       type |-> "float", required |-> TRUE],
       [key |-> "Currency",     type |-> "str",   required |-> TRUE],
       [key |-> "InvoiceDate",  type |-> "date",  required |-> TRUE],
       [key |-> "Status",       type |-> "str",   required |-> TRUE] >>

UPLOAD_EXPECTED_COLUMNS == [i \in 1..Len(UPLOAD_SCHEMA) |-> UPLOAD_SCHEMA[i].key]

(***************************************************************************)
(* Text helpers (Python str methods).                                      *)
(***************************************************************************)
Whitespace == {" ", "\t", "\n", "\r"}

Digits == <<"0", "1", "2", "3", "4", "5", "6", "7", "8", "9">>

IsDigit(c) == c \in {"0", "1", "2", "3", "4", "5", "6", "7", "8", "9"}

DigitVal(c) == (CHOOSE i \in 1..10 : Digits[i] = c) - 1

AllDigits(s) == \A i \in 1..Len(s) : IsDigit(s[i])

RECURSIVE DigitsValue(_)
DigitsValue(s) ==
    IF s = <<>> THEN 0
    ELSE 10 * DigitsValue(SubSeq(s, 1, Len(s) - 1)) + DigitVal(s[Len(s)])

RECURSIVE LStrip(_)
LStrip(s) ==
    IF s = <<>> THEN s
    ELSE IF Head(s) \in Whitespace THEN LStrip(Tail(s)) ELSE s

RECURSIVE RStrip(_)
RStrip(s) ==
    IF s = <<>> THEN s
    ELSE IF s[Len(s)] \in Whitespace THEN RStrip(SubSeq(s, 1, Len(s) - 1)) ELSE s

\* str.strip()
Strip(s) == RStrip(LStrip(s))

\* str.replace(old, new) for a one-character old
RECURSIVE Replace(_, _, _)
Replace(s, old, new) ==
    IF Len(s) = 0 THEN s
    ELSE IF Len(s) = 1 THEN (IF s[1] = old THEN new ELSE s)
    ELSE Replace(SubSeq(s, 1, Len(s) \div 2), old, new)
         \o Replace(SubSeq(s, (Len(s) \div 2) + 1, Len(s)), old, new)

\* s[:n]
Truncate(s, n) == IF Len(s) <= n THEN s ELSE SubSeq(s, 1, n)

\* str(value) of a raw JSON value that is not None
StrOf(value) == value.s

Null == [k |-> "null"]
Str(s) == [k |-> "str", s |-> s]
Num(s) == [k |-> "num", s |-> s]

_is_blank(value) ==
    IF value.k = "null" THEN TRUE
    ELSE IF value.k = "str" THEN Strip(value.s) = <<>>
    ELSE FALSE

_sanitize_string(value) ==
    IF value.k = "null" THEN <<>>
    ELSE Truncate(Replace(Replace(Strip(StrOf(value)), "\r", <<" ">>), "\n", <<" ">>),
                  MAX_STRING_LENGTH)

(***************************************************************************)
(* Number parsing: int(text) and float(text) on text over digits, sign,    *)
(* decimal point and other characters (exponent, "inf" and "nan" forms are *)
(* not part of the modelled inputs).                                       *)
(***************************************************************************)
Unsigned(s) == IF s # <<>> /\ Head(s) \in {"+", "-"} THEN Tail(s) ELSE s

Sign(s) == IF s # <<>> /\ Head(s) = "-" THEN -1 ELSE 1

IntOf(sign, u) ==
    IF u # <<>> /\ AllDigits(u)
    THEN [ok |-> TRUE, v |-> sign * DigitsValue(u)]
    ELSE [ok |-> FALSE, v |-> 0]

IntOfStripped(s) == IntOf(Sign(s), Unsigned(s))

\* int(text): [ok |-> BOOLEAN, v |-> the integer]
ParseInt(text) == IntOfStripped(Strip(text))

RECURSIVE Pow10(_)
Pow10(n) == IF n = 0 THEN 1 ELSE 10 * Pow10(n - 1)

\* the decimal m / 10^d in lowest form (a float is kept as an exact decimal)
RECURSIVE Decimal(_, _)
Decimal(m, d) ==
    IF d > 0 /\ m % 10 = 0 THEN Decimal(m \div 10, d - 1) ELSE [m |-> m, d |-> d]

\* the digits before (ip) and after (fp) the decimal point
FloatOfParts(sign, ip, fp) ==
    IF AllDigits(ip) /\ AllDigits(fp) /\ Len(ip) + Len(fp) > 0
    THEN [ok |-> TRUE,
          v |-> Decimal(sign * (DigitsValue(ip) * Pow10(Len(fp)) + DigitsValue(fp)), Len(fp))]
    ELSE [ok |-> FALSE, v |-> [m |-> 0, d |-> 0]]

\* p: the position of the first decimal point, Len(u) + 1 when there is none
FloatOfSplit(sign, u, p) == FloatOfParts(sign, SubSeq(u, 1, p - 1), SubSeq(u, p + 1, Len(u)))

FloatOf(sign, u) ==
    FloatOfSplit(sign, u,
                 IF \E i \in 1..Len(u) : u[i] = "."
                 THEN CHOOSE i \in 1..Len(u) : u[i] = "." /\ \A j \in 1..(i - 1) : u[j] # "."
                 ELSE Len(u) + 1)

FloatOfStripped(s) == FloatOf(Sign(s), Unsigned(s))

\* float(text): [ok |-> BOOLEAN, v |-> the decimal]
ParseFloat(text) == FloatOfStripped(Strip(text))

(***************************************************************************)
(* Dates: datetime.fromisoformat, datetime.strptime and date.isoformat.    *)
(***************************************************************************)
IsLeap(y) == (y % 4 = 0 /\ y % 100 # 0) \/ y % 400 = 0

DaysInMonth(y, m) ==
    IF m = 2 THEN (IF IsLeap(y) THEN 29 ELSE 28)
    ELSE IF m \in {4, 6, 9, 11} THEN 30 ELSE 31

ValidDate(y, m, d) == y >= 1 /\ y <= 9999 /\ m >= 1 /\ m <= 12 /\ d >= 1 /\ d <= DaysInMonth(y, m)

NoDate == [ok |-> FALSE, y |-> 0, m |-> 0, d |-> 0, time |-> <<>>]

\* the date y-m-d with the text of its time part (empty for a bare date)
MkDate(y, m, d, time) ==
    IF ValidDate(y, m, d) THEN [ok |-> TRUE, y |-> y, m |-> m, d |-> d, time |-> time]
    ELSE NoDate

\* two digits below the limit
TwoDigits(t, limit) == Len(t) = 2 /\ AllDigits(t) /\ DigitsValue(t) < limit

\* "HH:MM" or "HH:MM:SS"
ValidClock(t) ==
    /\ Len(t) \in {5, 8}
    /\ TwoDigits(SubSeq(t, 1, 2), 24)
    /\ t[3] = ":"
    /\ TwoDigits(SubSeq(t, 4, 5), 60)
    /\ (Len(t) = 8 => t[6] = ":" /\ TwoDigits(SubSeq(t, 7, 8), 60))

\* the time part after the separator: a clock, then an optional +HH:MM / -HH:MM offset
ValidTimePart(t) ==
    IF Len(t) \in {11, 14}
    THEN /\ ValidClock(SubSeq(t, 1, Len(t) - 6))
         /\ t[Len(t) - 5] \in {"+", "-"}
         /\ ValidClock(SubSeq(t, Len(t) - 4, Len(t)))
    ELSE ValidClock(t)

\* datetime.fromisoformat(text): YYYY-MM-DD, optionally one separator character and a
\* time part
FromIsoFormat(text) ==
    IF /\ Len(text) >= 10
       /\ \A i \in 1..10 : IF i \in {5, 8} THEN text[i] = "-" ELSE IsDigit(text[i])
       /\ (Len(text) > 10 => Len(text) >= 12 /\ ValidTimePart(SubSeq(text, 12, Len(text))))
    THEN MkDate(DigitsValue(SubSeq(text, 1, 4)), DigitsValue(SubSeq(text, 6, 7)),
                DigitsValue(SubSeq(text, 9, 10)), SubSeq(text, 12, Len(text)))
    ELSE NoDate

\* the positions of sep in text
Positions(text, sep) == {i \in 1..Len(text) : text[i] = sep}

\* the three fields of text around the separators at a < b
FieldsAt(text, a, b) ==
    <<SubSeq(text, 1, a - 1), SubSeq(text, a + 1, b - 1), SubSeq(text, b + 1, Len(text))>>

FieldsOf(text, at) ==
    IF Cardinality(at) # 2 THEN <<>>
    ELSE FieldsAt(text, CHOOSE i \in at : \A j \in at : i <= j,
                        CHOOSE i \in at : \A j \in at : i >= j)

\* the three fields of text around exactly two separators, or <<>> when there are not two
Fields(text, sep) == FieldsOf(text, Positions(text, sep))

\* %Y: four digits; %m and %d: one or two digits
IsYearField(f) == Len(f) = 4 /\ AllDigits(f)

IsShortField(f) == Len(f) \in {1, 2} /\ AllDigits(f)

\* the date of the fields year, month, day when they have the shape of %Y, %m, %d
DateOfFields(year, month, day) ==
    IF IsYearField(year) /\ IsShortField(month) /\ IsShortField(day)
    THEN MkDate(DigitsValue(year), DigitsValue(month), DigitsValue(day), <<>>)
    ELSE NoDate

StrptimeFields(f, fmt) ==
    IF f = <<>> THEN NoDate
    ELSE IF fmt = "%Y-%m-%d" THEN DateOfFields(f[1], f[2], f[3])
    ELSE IF fmt = "%d/%m/%Y" THEN DateOfFields(f[3], f[2], f[1])
    ELSE DateOfFields(f[3], f[1], f[2])

\* datetime.strptime(text, fmt) for fmt in "%Y-%m-%d", "%d/%m/%Y", "%m/%d/%Y"
Strptime(text, fmt) == StrptimeFields(Fields(text, IF fmt = "%Y-%m-%d" THEN "-" ELSE "/"), fmt)

\* n printed with exactly w digits
RECURSIVE Padded(_, _)
Padded(n, w) == IF w = 0 THEN <<>> ELSE Padded(n \div 10, w - 1) \o <<Digits[(n % 10) + 1]>>

\* str(n) for an integer n >= 0
RECURSIVE NatText(_)
NatText(n) == IF n < 10 THEN <<Digits[n + 1]>> ELSE NatText(n \div 10) \o <<Digits[(n % 10) + 1]>>

\* str(n) for an integer n
IntText(n) == IF n < 0 THEN <<"-">> \o NatText(-n) ELSE NatText(n)

\* IsoFormatDate without the zero padding of year, month and day
IsoFormatDate_Unpadded(dt) == NatText(dt.y) \o <<"-">> \o NatText(dt.m) \o <<"-">> \o NatText(dt.d)

\* date.isoformat()
IsoFormatDate(dt) == Padded(dt.y, 4) \o <<"-">> \o Padded(dt.m, 2) \o <<"-">> \o Padded(dt.d, 2)

\* the clock of a time part with the seconds filled in, and its offset
IsoFormatTime(t) ==
    (IF t = <<>> THEN <<"0", "0", ":", "0", "0", ":", "0", "0">>
     ELSE IF Len(t) \in {5, 11} THEN SubSeq(t, 1, 5) \o <<":", "0", "0">>
     ELSE SubSeq(t, 1, 8))
    \o (IF Len(t) \in {11, 14} THEN SubSeq(t, Len(t) - 5, Len(t)) ELSE <<>>)

\* datetime.isoformat() of a parsed timestamp
IsoFormatDateTime(dt) == IsoFormatDate(dt) \o <<"T">> \o IsoFormatTime(dt.time)

\* str.replace("Z", "+00:00")
ReplaceZ(text) == Replace(text, "Z", <<"+", "0", "0", ":", "0", "0">>)

(***************************************************************************)
(* Schema validator and sanitizer.  A sanitized value is [t |-> "int", v], *)
(* [t |-> "float", v] or [t |-> "str", s]; an error entry is the message   *)
(* with its row index and column key (0 and "" for a batch-level message). *)
(***************************************************************************)
Err(row, col, msg) == [row |-> row, col |-> col, msg |-> msg]

IntValue(v) == [t |-> "int", v |-> v]
FloatValue(v) == [t |-> "float", v |-> v]
StrValue(s) == [t |-> "str", s |-> s]

\* the first attempt that parsed, or the last one
RECURSIVE FirstParsed(_)
FirstParsed(attempts) ==
    IF Len(attempts) = 1 \/ Head(attempts).ok THEN Head(attempts)
    ELSE FirstParsed(Tail(attempts))

\* the parse attempts of the date branch of _coerce_value, in order: ISO with Z as
\* +00:00, ISO as written, then the three strptime formats
DateOfText(text) ==
    FirstParsed(<<FromIsoFormat(ReplaceZ(text)), FromIsoFormat(text),
                  Strptime(text, "%Y-%m-%d"), Strptime(text, "%d/%m/%Y"),
                  Strptime(text, "%m/%d/%Y")>>)

Coerced(ok, v, msg) == [ok |-> ok, v |-> v, msg |-> IF ok THEN "" ELSE msg]

CoercedInt(r) == Coerced(r.ok, IntValue(r.v), "must be an integer.")

CoercedFloat(r) == Coerced(r.ok, FloatValue(r.v), "must be a number.")

CoercedDate(dt) ==
    Coerced(dt.ok, StrValue(IF dt.ok THEN IsoFormatDate(dt) ELSE <<>>),
            "must be a valid date (YYYY-MM-DD).")

\* [ok |-> TRUE, v |-> sanitized value, msg |-> ""] or
\* [ok |-> FALSE, v, msg |-> the ValueError text after "Row i: 'key' "]
_coerce_value(value, expected_type) ==
    IF expected_type = "int" THEN CoercedInt(ParseInt(StrOf(value)))
    ELSE IF expected_type = "float" THEN CoercedFloat(ParseFloat(StrOf(value)))
    ELSE IF expected_type = "date" THEN CoercedDate(DateOfText(_sanitize_string(value)))
    ELSE Coerced(TRUE, StrValue(_sanitize_string(value)), "")

\* row.get(key)
RowGet(row, key) == IF key \in DOMAIN row.f THEN row.f[key] ELSE Null

\* a cell that is not blank, after _coerce_value
CellCoerced(row_index, column, c) ==
    [errors |-> IF c.ok THEN <<>> ELSE <<Err(row_index, column.key, c.msg)>>,
     kept |-> c.ok, value |-> c.v]

\* one turn of the loop of _validate_row, for the raw value of one column:
\* [errors |-> the error appended, if any, kept |-> sanitized[key] is set, value |-> to what]
CellOf(row_index, column, raw) ==
    IF _is_blank(raw)
    THEN [errors |-> IF column.required
                     THEN <<Err(row_index, column.key, "is required.")>> ELSE <<>>,
          kept |-> TRUE, value |-> StrValue(<<>>)]
    ELSE CellCoerced(row_index, column, _coerce_value(raw, column.type))

Cell(row, row_index, column) == CellOf(row_index, column, RowGet(row, column.key))

\* the loop over the first n columns of the schema
RECURSIVE Cells(_, _, _)
Cells(row, row_index, n) ==
    IF n = 0 THEN <<>>
    ELSE Append(Cells(row, row_index, n - 1), Cell(row, row_index, UPLOAD_SCHEMA[n]))

RECURSIVE CellErrors(_, _)
CellErrors(cells, n) == IF n = 0 THEN <<>> ELSE CellErrors(cells, n - 1) \o cells[n].errors

\* the indexes of the columns whose cell got a sanitized value
KeptColumns(cells) == {i \in 1..Len(cells) : cells[i].kept}

RowOfCells(cells) ==
    [sanitized |->
        [key \in {UPLOAD_SCHEMA[i].key : i \in KeptColumns(cells)} |->
            cells[CHOOSE i \in 1..Len(cells) : UPLOAD_SCHEMA[i].key = key].value],
     errors |-> CellErrors(cells, Len(cells))]

\* [sanitized |-> key -> value (no entry for a cell that failed to parse), errors |-> list]
_validate_row(row, row_index) ==
    IF ~row.dict
    THEN [sanitized |-> << >>,
          errors |-> <<Err(row_index, "", "must be an object with the expected columns.")>>]
    ELSE RowOfCells(Cells(row, row_index, Len(UPLOAD_SCHEMA)))

List(v) == [k |-> "list", v |-> v]

\* Python truth value of a raw JSON value
Truthy(value) ==
    IF value.k = "null" THEN FALSE
    ELSE IF value.k = "list" THEN value.v # <<>>
    ELSE IF value.k = "num" THEN ParseFloat(value.s).v.m # 0
    ELSE value.s # <<>>

\* meta_raw.get(key, default)
MetaGet(meta_raw, key, default) ==
    IF meta_raw.dict /\ key \in DOMAIN meta_raw.f THEN meta_raw.f[key] ELSE default

\* the warnings kept by _sanitize_meta: the non-empty sanitized items, in order
RECURSIVE KeptWarnings(_)
KeptWarnings(items) ==
    IF items = <<>> THEN <<>>
    ELSE (IF _sanitize_string(Head(items)) # <<>> THEN <<_sanitize_string(Head(items))>>
          ELSE <<>>) \o KeptWarnings(Tail(items))

\* a timestamp of the result: the caller's text re-rendered, or the server clock (text
\* empty); at is -1 for a caller-supplied one
CallerTime(text) == [text |-> text, at |-> -1]
ServerTime(t) == [text |-> <<>>, at |-> t]

UnknownFilename == <<"u", "n", "k", "n", "o", "w", "n", ".", "x", "l", "s", "x">>

EmptyMeta ==
    [originalFilename |-> <<>>, uploadTime |-> ServerTime(0), warnings |-> <<>>,
     serverReceivedAt |-> ServerTime(0), rowCount |-> 0]

\* _sanitize_meta from the sanitized filename, whether uploadTime is given, what it
\* parsed to, and the raw warnings
MetaOf(name, given, parsed, warnings_raw, row_count, t) ==
    IF given /\ ~parsed.ok
    THEN [ok |-> FALSE,
          errors |-> <<Err(0, "meta.uploadTime", "must be ISO-8601 formatted.")>>,
          meta |-> EmptyMeta]
    ELSE [ok |-> TRUE, errors |-> <<>>,
          meta |-> [originalFilename |-> IF name # <<>> THEN name ELSE UnknownFilename,
                    uploadTime |-> IF given THEN CallerTime(IsoFormatDateTime(parsed))
                                   ELSE ServerTime(t),
                    warnings |-> IF warnings_raw.k = "list" THEN KeptWarnings(warnings_raw.v)
                                 ELSE <<>>,
                    serverReceivedAt |-> ServerTime(t),
                    rowCount |-> row_count]]

\* _sanitize_meta that takes the caller's rowCount when it is a number
_sanitize_meta_TrustRowCount(meta_raw, row_count, t) ==
    MetaOf(_sanitize_string(MetaGet(meta_raw, "originalFilename", Null)),
           Truthy(MetaGet(meta_raw, "uploadTime", Null)),
           FromIsoFormat(ReplaceZ(_sanitize_string(MetaGet(meta_raw, "uploadTime", Null)))),
           MetaGet(meta_raw, "warnings", List(<<>>)),
           IF MetaGet(meta_raw, "rowCount", Null).k = "num"
           THEN ParseInt(MetaGet(meta_raw, "rowCount", Null).s).v ELSE row_count,
           t)

\* [ok |-> TRUE, meta |-> ...] or [ok |-> FALSE, errors |-> the UploadValidationError list]
_sanitize_meta(meta_raw, row_count, t) ==
    MetaOf(_sanitize_string(MetaGet(meta_raw, "originalFilename", Null)),
           Truthy(MetaGet(meta_raw, "uploadTime", Null)),
           FromIsoFormat(ReplaceZ(_sanitize_string(MetaGet(meta_raw, "uploadTime", Null)))),
           MetaGet(meta_raw, "warnings", List(<<>>)),
           row_count, t)

\* RowStep that stops collecting after the first row with errors
RowStep_FailFast(before, r) ==
    IF before.errors # <<>> THEN before
    ELSE IF r.errors # <<>> THEN [rows |-> before.rows, errors |-> r.errors]
    ELSE [rows |-> Append(before.rows, r.sanitized), errors |-> before.errors]

\* RowStep with a row that has errors skipped instead of reported
RowStep_SkipBadRow(before, r) ==
    IF r.errors # <<>> THEN before
    ELSE [rows |-> Append(before.rows, r.sanitized), errors |-> before.errors]

\* one turn of the loop of _validate_upload_payload: r is _validate_row of the next row
RowStep(before, r) ==
    IF r.errors # <<>>
    THEN [rows |-> before.rows, errors |-> before.errors \o r.errors]
    ELSE [rows |-> Append(before.rows, r.sanitized), errors |-> before.errors]

\* the loop of _validate_upload_payload over data[1..n]:
\* [rows |-> sanitized rows of the rows without errors, errors |-> all row errors]
RECURSIVE ValidateRows(_, _)
ValidateRows(data, n) ==
    IF n = 0 THEN [rows |-> <<>>, errors |-> <<>>]
    ELSE RowStep(ValidateRows(data, n - 1), _validate_row(data[n], n))

Rejected(errors) ==
    [ok |-> FALSE, errors |-> errors, rows |-> <<>>, columns |-> <<>>, meta |-> EmptyMeta]

\* the end of _validate_upload_payload: m is _sanitize_meta(meta, len(sanitized_rows))
Accepted(v, m) ==
    IF ~m.ok THEN Rejected(m.errors)
    ELSE [ok |-> TRUE, errors |-> <<>>, rows |-> v.rows,
          columns |-> UPLOAD_EXPECTED_COLUMNS, meta |-> m.meta]

\* _validate_upload_payload after the loop over the rows
AfterRows(payload, v, t) ==
    IF v.errors # <<>> THEN Rejected(v.errors)
    ELSE Accepted(v, _sanitize_meta(payload.meta, Len(v.rows), t))

\* _validate_upload_payload with the column check made after the rows are validated
_validate_upload_payload_RowsFirst(payload, t) ==
    IF ~payload.dict
    THEN Rejected(<<Err(0, "", "Payload must be a JSON object.")>>)
    ELSE IF payload.data.k # "list" \/ payload.data.v = <<>>
    THEN Rejected(<<Err(0, "", "'data' must be a non-empty array of rows.")>>)
    ELSE IF Len(payload.data.v) > MAX_UPLOAD_ROWS
    THEN Rejected(<<Err(0, "", "A maximum of MAX_UPLOAD_ROWS rows is allowed per upload.")>>)
    ELSE IF ValidateRows(payload.data.v, Len(payload.data.v)).errors # <<>>
    THEN Rejected(ValidateRows(payload.data.v, Len(payload.data.v)).errors)
    ELSE IF payload.columns # List(UPLOAD_EXPECTED_COLUMNS)
    THEN Rejected(<<Err(0, "", "Columns must exactly match the schema.")>>)
    ELSE AfterRows(payload, ValidateRows(payload.data.v, Len(payload.data.v)), t)

\* [ok |-> TRUE, rows, columns, meta] (the returned dict) or
\* [ok |-> FALSE, errors] (UploadValidationError raised with that list)
_validate_upload_payload(payload, t) ==
    IF ~payload.dict
    THEN Rejected(<<Err(0, "", "Payload must be a JSON object.")>>)
    ELSE IF payload.columns # List(UPLOAD_EXPECTED_COLUMNS)
    THEN Rejected(<<Err(0, "", "Columns must exactly match the schema.")>>)
    ELSE IF payload.data.k # "list" \/ payload.data.v = <<>>
    THEN Rejected(<<Err(0, "", "'data' must be a non-empty array of rows.")>>)
    ELSE IF Len(payload.data.v) > MAX_UPLOAD_ROWS
    THEN Rejected(<<Err(0, "", "A maximum of MAX_UPLOAD_ROWS rows is allowed per upload.")>>)
    ELSE AfterRows(payload, ValidateRows(payload.data.v, Len(payload.data.v)), t)

(***************************************************************************)
(* Bounds of the model.                                                    *)
(***************************************************************************)
MaxRequests == 4
MaxClock == 100
MaxShortRows == 2
MaxRateRequests == 5
MaxRateClock == 92
MaxConcChecks == 5
MaxConcClock == 61
MaxCustomers == 5
MaxViewsClock == 86400
MaxRecords == 5

(***************************************************************************)
(* Inputs: texts, rows, metadata and payloads the requests are drawn from. *)
(***************************************************************************)
T_2024_01_01 == <<"2", "0", "2", "4", "-", "0", "1", "-", "0", "1">>
T_2024_13_45 == <<"2", "0", "2", "4", "-", "1", "3", "-", "4", "5">>
T_31_12_2024 == <<"3", "1", "/", "1", "2", "/", "2", "0", "2", "4">>
T_Timestamp == T_2024_01_01 \o <<"T", "1", "0", ":", "3", "0", ":", "0", "0", "Z">>

GoodRow ==
    [dict |-> TRUE,
     f |-> [Invoice |-> Num(<<"1", "2">>), CustomerID |-> Num(<<"7">>),
            CustomerName |-> Str(<<"A", "d", "a">>), Amount |-> Num(<<"1", ".", "5">>),
            Currency |-> Str(<<"U", "S", "D">>), InvoiceDate |-> Str(T_2024_01_01),
            Status |-> Str(<<"P", "a", "i", "d">>)]]

\* valid, but every cell needs sanitizing
PaddedRow ==
    [dict |-> TRUE,
     f |-> [Invoice |-> Str(<<" ", "3", "4", " ">>), CustomerID |-> Str(<<"+", "8">>),
            CustomerName |-> Str(<<" ", "A", "\n", "B", " ">>),
            Amount |-> Str(<<"2", ".", "5", "0">>),
            Currency |-> Str(<<"E", "U", "R", "\t">>), InvoiceDate |-> Str(T_31_12_2024),
            Status |-> Str(<<"D", "u", "e">>), Note |-> Str(<<"x">>)]]

BadDateRow == [GoodRow EXCEPT !.f.InvoiceDate = Str(T_2024_13_45)]

\* Invoice absent, CustomerID not an integer, CustomerName blank, Amount not a number,
\* Status null
BadCellsRow ==
    [dict |-> TRUE,
     f |-> [CustomerID |-> Num(<<"7", ".", "0">>), CustomerName |-> Str(<<" ">>),
            Amount |-> Str(<<"x">>), Currency |-> Str(<<"U", "S", "D">>),
            InvoiceDate |-> Str(T_2024_01_01), Status |-> Null]]

NotObjectRow == [dict |-> FALSE]

\* valid; the customer name is one character longer than the maximum string length,
\* with a space at the last position that is kept
LongNameRow ==
    [GoodRow EXCEPT
        !.f.CustomerName =
            Str([i \in 1..(MAX_STRING_LENGTH + 1) |->
                    IF i = MAX_STRING_LENGTH THEN " " ELSE "a"])]

RowPool == {GoodRow, PaddedRow, BadDateRow, BadCellsRow, NotObjectRow}

ShortData == UNION {[1..n -> RowPool] : n \in 0..MaxShortRows}

\* n valid rows, alternating the two valid rows
LongData(n) == [i \in 1..n |-> IF i % 2 = 1 THEN GoodRow ELSE PaddedRow]

NoMeta == [dict |-> FALSE]

FullMeta ==
    [dict |-> TRUE,
     f |-> [originalFilename |-> Str(<<" ", "a", ".", "x", " ">>),
            uploadTime |-> Str(T_Timestamp),
            warnings |-> List(<<Str(<<" ">>), Str(<<"w", "1">>), Null, Str(<<" ", "w", "2">>)>>),
            rowCount |-> Num(<<"9", "9">>),
            serverReceivedAt |-> Str(T_2024_01_01)]]

BadTimeMeta ==
    [dict |-> TRUE,
     f |-> [originalFilename |-> Str(<<" ">>), uploadTime |-> Str(<<"n", "o", "o", "n">>)]]

\* no uploadTime, a blank filename and warnings to filter
PlainMeta ==
    [dict |-> TRUE,
     f |-> [originalFilename |-> Str(<<" ", "\n">>),
            warnings |-> List(<<Str(<<"w", "1", " ">>), Str(<<>>), Str(<<"\t", "w", "2">>),
                                Null, Str(<<"w", "1">>)>>)]]

\* an uploadTime that is the empty string
EmptyTimeMeta ==
    [dict |-> TRUE,
     f |-> [originalFilename |-> Str(<<"a", ".", "x">>), uploadTime |-> Str(<<>>)]]

Payload(columns, data, meta) ==
    [dict |-> TRUE, columns |-> columns, data |-> data, meta |-> meta]

\* the schema keys with the first two swapped, and without the last one
SwappedColumns ==
    [i \in 1..Len(UPLOAD_EXPECTED_COLUMNS) |->
        UPLOAD_EXPECTED_COLUMNS[IF i = 1 THEN 2 ELSE IF i = 2 THEN 1 ELSE i]]

MissingColumn == SubSeq(UPLOAD_EXPECTED_COLUMNS, 1, Len(UPLOAD_EXPECTED_COLUMNS) - 1)

\* the schema keys with one more key, and with the first key in lower case
ExtraColumn == Append(UPLOAD_EXPECTED_COLUMNS, "Note")

RenamedColumn == [UPLOAD_EXPECTED_COLUMNS EXCEPT ![1] = "invoice"]

Payloads ==
    {Payload(List(UPLOAD_EXPECTED_COLUMNS), List(d), NoMeta) : d \in ShortData}
    \cup {Payload(List(UPLOAD_EXPECTED_COLUMNS), List(LongData(n)), NoMeta) :
            n \in {MAX_UPLOAD_ROWS, MAX_UPLOAD_ROWS + 1}}
    \cup {Payload(List(UPLOAD_EXPECTED_COLUMNS), List(<<r>>), m) :
            r \in {GoodRow, BadDateRow}, m \in {FullMeta, BadTimeMeta}}
    \cup {Payload(List(UPLOAD_EXPECTED_COLUMNS), List(<<GoodRow>>), m) :
            m \in {PlainMeta, EmptyTimeMeta}}
    \cup {Payload(c, List(<<r>>), NoMeta) :
            r \in {GoodRow, BadDateRow},
            c \in {Null, List(SwappedColumns), List(MissingColumn)}}
    \cup {Payload(List(UPLOAD_EXPECTED_COLUMNS), List(<<LongNameRow>>), NoMeta)}
    \cup {Payload(List(c), List(<<BadDateRow>>), BadTimeMeta) :
            c \in {ExtraColumn, RenamedColumn}}
    \cup {Payload(List(UPLOAD_EXPECTED_COLUMNS), Null, NoMeta),
          [dict |-> FALSE, columns |-> Null, data |-> Null, meta |-> NoMeta]}

RemoteAddrs == {"", "10.0.0.1"}

Buckets == {"ingest", "schema", "template"}

\* a key of the client alone, one history for its three buckets
Key_ClientOnly(bucket, remote_addr) ==
    <<"ingest", IF remote_addr = "" THEN "anonymous" ELSE remote_addr>>

\* key = f"{bucket}:{client}", client = remote_addr or "anonymous"
Key(bucket, remote_addr) == <<bucket, IF remote_addr = "" THEN "anonymous" ELSE remote_addr>>

Keys == {Key(b, a) : b \in Buckets, a \in RemoteAddrs}

\* seconds the clock advances between two requests
TimeSteps == {30, 31}

\* identifiers uuid4().hex is drawn from
UploadIds == {"id1", "id2"}

\* the user int(get_jwt_identity()) and User.query.get yield: the client identity is
\* given to the handler, token verification is not part of this model
UserIds == {1}

\* what the database does for this request: "ok", the storage initialisation fails, or
\* the commit fails
DbOutcomes == {"ok", "init_error", "commit_error"}

Requests ==
    {[mimetype_json |-> TRUE, oversized |-> FALSE, parses |-> TRUE, payload |-> p] :
        p \in Payloads}
    \cup {[mimetype_json |-> FALSE, oversized |-> FALSE, parses |-> TRUE,
           payload |-> Payload(List(UPLOAD_EXPECTED_COLUMNS), List(<<GoodRow>>), NoMeta)],
          [mimetype_json |-> TRUE, oversized |-> TRUE, parses |-> TRUE,
           payload |-> Payload(List(UPLOAD_EXPECTED_COLUMNS), List(<<GoodRow>>), NoMeta)],
          [mimetype_json |-> TRUE, oversized |-> FALSE, parses |-> FALSE,
           payload |-> Payload(List(UPLOAD_EXPECTED_COLUMNS), List(<<GoodRow>>), NoMeta)]}

Envs == [user_id : UserIds, upload_id : UploadIds, db : DbOutcomes]

(***************************************************************************)
(* State.                                                                  *)
(***************************************************************************)
VARIABLES
    now,                  \* datetime.utcnow(), in seconds
    _rate_limit_history,  \* key -> deque of admission timestamps
    store,                \* the uploads table: sequence of UploadRecord
    origin,               \* history variable: the payload each stored record came from
    admissions,           \* history variable: key -> every timestamp ever admitted
    rejections,           \* history variable: key -> every timestamp ever rejected
    last,                 \* the last request handled and what the handler did with it
    nreq,                 \* number of requests handled
    workload,             \* the ingest request the clients of this run submit
    pc,                   \* thread -> where it is in _enforce_rate_limit, with its locals
                          \* and how many timestamps its trimming loop removed
    transactions,         \* the records of the file at DATA_PATH, in file order
    view                  \* the last derived-view response and when it was computed

vars ==
    <<now, _rate_limit_history, store, origin, admissions, rejections, last, nreq, workload,
      pc, transactions, view>>

(***************************************************************************)
(* Rate limiter.                                                           *)
(***************************************************************************)
\* Trim that also drops a timestamp exactly one window old
RECURSIVE Trim_DropBoundary(_, _)
Trim_DropBoundary(history, window_start) ==
    IF history # <<>> /\ Head(history) <= window_start
    THEN Trim_DropBoundary(Tail(history), window_start)
    ELSE history

\* while history and history[0] < window_start: history.popleft()
RECURSIVE Trim(_, _)
Trim(history, window_start) ==
    IF history # <<>> /\ Head(history) < window_start
    THEN Trim(Tail(history), window_start)
    ELSE history

\* a count test that rejects only above the limit
CheckTrimmed_OneMore(trimmed, t) ==
    IF Len(trimmed) > UPLOAD_RATE_LIMIT
    THEN [admitted |-> FALSE, history |-> trimmed]
    ELSE [admitted |-> TRUE, history |-> Append(trimmed, t)]

\* the test after the trimming loop, on the trimmed deque
CheckTrimmed(trimmed, t) ==
    IF Len(trimmed) >= UPLOAD_RATE_LIMIT
    THEN [admitted |-> FALSE, history |-> trimmed]
    ELSE [admitted |-> TRUE, history |-> Append(trimmed, t)]

\* one check of a key's history at time t:
\* [admitted |-> FALSE (UploadRateLimitError raised) or TRUE, history |-> the deque after]
_enforce_rate_limit(history, t) ==
    CheckTrimmed(Trim(history, t - UPLOAD_RATE_WINDOW_SECONDS), t)

(***************************************************************************)
(* Storage.                                                                *)
(***************************************************************************)
\* _init_upload_storage(): TRUE when it raises UploadStorageError
InitUploadStorageRaises(env) == env.db = "init_error"

\* the UploadRecord built by _persist_upload
UploadRecord(validated, env) ==
    [upload_id |-> env.upload_id,
     user_id |-> env.user_id,
     original_filename |-> validated.meta.originalFilename,
     row_count |-> Len(validated.rows),
     data_json |-> validated.rows,
     meta_json |-> validated.meta]

\* db.session.commit() raises (SQLAlchemyError): the database fails, or upload_id is
\* not unique
CommitRaises(records, record, env) ==
    \/ env.db = "commit_error"
    \/ \E i \in 1..Len(records) : records[i].upload_id = record.upload_id

\* AddAndCommit that returns the stored record of the same rows instead of adding one
AddAndCommit_Dedup(records, record, env) ==
    IF CommitRaises(records, record, env)
    THEN [raised |-> "SQLAlchemyError", record |-> record, records |-> records]
    ELSE IF \E i \in 1..Len(records) : records[i].data_json = record.data_json
    THEN [raised |-> "",
          record |-> records[CHOOSE i \in 1..Len(records) :
                                 records[i].data_json = record.data_json],
          records |-> records]
    ELSE [raised |-> "", record |-> record, records |-> Append(records, record)]

\* db.session.add(record); db.session.commit(); return record
AddAndCommit(records, record, env) ==
    IF CommitRaises(records, record, env)
    THEN [raised |-> "SQLAlchemyError", record |-> record, records |-> records]
    ELSE [raised |-> "", record |-> record, records |-> Append(records, record)]

\* _persist_upload: [raised |-> exception name or "", record, records |-> the table after]
_persist_upload(records, validated, env) ==
    AddAndCommit(records, UploadRecord(validated, env), env)

(***************************************************************************)
(* Handlers.  A handler's outcome: the calls it made in order, the         *)
(* exception that escaped it ("" when it returned), the status and body of *)
(* the response it returned, and the uploads table after it.               *)
(***************************************************************************)
NoBody ==
    [success |-> FALSE, errors |-> <<>>, details |-> "", uploadId |-> "", rowCount |-> 0,
     preview |-> <<>>, meta |-> EmptyMeta]

Failure(errors, details) == [NoBody EXCEPT !.errors = errors, !.details = details]

Returned(calls, status, body, records) ==
    [calls |-> calls, raised |-> "", status |-> status, body |-> body, records |-> records]

Raised(calls, exception, records) ==
    [calls |-> calls, raised |-> exception, status |-> 0, body |-> NoBody, records |-> records]

\* Preview without the slice
Preview_AllRows(rows) == rows

\* validated["rows"][:10]
Preview(rows) == SubSeq(rows, 1, IF Len(rows) < PREVIEW_ROWS THEN Len(rows) ELSE PREVIEW_ROWS)

\* the end of ingest_upload: p is what _persist_upload did
Stored(calls, validated, p) ==
    IF p.raised # ""
    THEN Raised(calls, p.raised, p.records)
    ELSE Returned(calls, 201,
                  [NoBody EXCEPT !.success = TRUE,
                                 !.uploadId = p.record.upload_id,
                                 !.rowCount = Len(validated.rows),
                                 !.preview = Preview(validated.rows),
                                 !.meta = validated.meta],
                  p.records)

\* StoreValidated with the persistence call made again after it
StoreValidated_PersistTwice(calls, records, validated, env) ==
    IF InitUploadStorageRaises(env)
    THEN Returned(Append(calls, "_init_upload_storage"), 500,
                  Failure(<<Err(0, "", "Failed to persist upload.")>>, "UploadStorageError"),
                  records)
    ELSE Stored(calls \o <<"_init_upload_storage", "_persist_upload", "_persist_upload">>,
                validated,
                _persist_upload(_persist_upload(records, validated, env).records, validated,
                                [env EXCEPT !.upload_id = "id2"]))

\* ingest_upload from the storage block on (the payload passed validation)
StoreValidated(calls, records, validated, env) ==
    IF InitUploadStorageRaises(env)
    THEN Returned(Append(calls, "_init_upload_storage"), 500,
                  Failure(<<Err(0, "", "Failed to persist upload.")>>, "UploadStorageError"),
                  records)
    ELSE Stored(calls \o <<"_init_upload_storage", "_persist_upload">>, validated,
                _persist_upload(records, validated, env))

\* ingest_upload after the rate-limit check admitted the request; validated is
\* _validate_upload_payload(payload) for the body's payload
IngestAdmitted(calls, records, req, validated, env) ==
    IF ~req.mimetype_json
    THEN Returned(calls, 415,
                  Failure(<<Err(0, "", "Content-Type must be application/json.")>>, ""),
                  records)
    ELSE IF req.oversized
    THEN Returned(calls, 413,
                  Failure(<<Err(0, "", "Payload exceeds maximum allowed size.")>>, ""),
                  records)
    ELSE IF ~req.parses
    THEN Returned(calls, 400, Failure(<<Err(0, "", "Invalid JSON body.")>>, ""), records)
    ELSE IF ~validated.ok
    THEN Returned(Append(calls, "_validate_upload_payload"), 422,
                  Failure(validated.errors, ""), records)
    ELSE StoreValidated(Append(calls, "_validate_upload_payload"), records, validated, env)

\* Respond with the rate-limit token given back when the request stored nothing
Respond_Refund(bucket, key, req, check, out) ==
    /\ _rate_limit_history' =
           IF Len(out.records) > Len(store)
           THEN [_rate_limit_history EXCEPT ![key] = check.history]
           ELSE _rate_limit_history
    /\ admissions' = IF check.admitted THEN [admissions EXCEPT ![key] = Append(@, now)]
                     ELSE admissions
    /\ rejections' = IF check.admitted THEN rejections
                     ELSE [rejections EXCEPT ![key] = Append(@, now)]
    /\ store' = out.records
    /\ origin' = IF Len(out.records) > Len(store) THEN Append(origin, req.payload)
                 ELSE origin
    /\ last' = [op |-> bucket, key |-> key, at |-> now, req |-> req,
                admitted |-> check.admitted, calls |-> out.calls,
                raised |-> out.raised, status |-> out.status, body |-> out.body]
    /\ nreq' = nreq + 1
    /\ UNCHANGED <<now, workload, pc, transactions, view>>

\* the effect of one request on the state: check is what _enforce_rate_limit did with
\* the key's history, out the handler's outcome
Respond(bucket, key, req, check, out) ==
    /\ _rate_limit_history' = [_rate_limit_history EXCEPT ![key] = check.history]
    /\ admissions' = IF check.admitted THEN [admissions EXCEPT ![key] = Append(@, now)]
                     ELSE admissions
    /\ rejections' = IF check.admitted THEN rejections
                     ELSE [rejections EXCEPT ![key] = Append(@, now)]
    /\ store' = out.records
    /\ origin' = IF Len(out.records) > Len(store) THEN Append(origin, req.payload)
                 ELSE origin
    /\ last' = [op |-> bucket, key |-> key, at |-> now, req |-> req,
                admitted |-> check.admitted, calls |-> out.calls,
                raised |-> out.raised, status |-> out.status, body |-> out.body]
    /\ nreq' = nreq + 1
    /\ UNCHANGED <<now, workload, pc, transactions, view>>

\* Checked with the handler carrying on after a rejected check
Checked_CarryOn(check, admitted_out) == admitted_out

\* the outcome of a handler that starts with _enforce_rate_limit: UploadRateLimitError
\* leaves the handler when the check rejects, admitted_out is its outcome otherwise
Checked(check, admitted_out) ==
    IF check.admitted THEN admitted_out
    ELSE Raised(<<"_enforce_rate_limit">>, "UploadRateLimitError", store)

Handle(bucket, key, req, check, admitted_out) ==
    Respond(bucket, key, req, check, Checked(check, admitted_out))

NoRequest ==
    [mimetype_json |-> FALSE, oversized |-> FALSE, parses |-> FALSE,
     payload |-> [dict |-> FALSE, columns |-> Null, data |-> Null, meta |-> NoMeta]]

get_upload_schema(remote_addr) ==
    Handle("schema", Key("schema", remote_addr), NoRequest,
           _enforce_rate_limit(_rate_limit_history[Key("schema", remote_addr)], now),
           Returned(<<"_enforce_rate_limit">>, 200, NoBody, store))

get_upload_template(remote_addr) ==
    Handle("template", Key("template", remote_addr), NoRequest,
           _enforce_rate_limit(_rate_limit_history[Key("template", remote_addr)], now),
           Returned(<<"_enforce_rate_limit">>, 200, NoBody, store))

\* validated: _validate_upload_payload of the body
IngestValidated(remote_addr, req, validated) ==
    \E env \in Envs :
        Handle("ingest", Key("ingest", remote_addr), req,
               _enforce_rate_limit(_rate_limit_history[Key("ingest", remote_addr)], now),
               IngestAdmitted(<<"_enforce_rate_limit">>, store, req, validated, env))

ingest_upload(remote_addr, req) ==
    IngestValidated(remote_addr, req, _validate_upload_payload(req.payload, now))

\* time passes between requests
Tick(dt) ==
    /\ now' = now + dt
    /\ UNCHANGED <<_rate_limit_history, store, origin, admissions, rejections, last, nreq,
                   workload, pc, transactions, view>>

\* no derived view computed yet
NoView ==
    [op |-> "none", at |-> 0, raised |-> FALSE, customers |-> <<>>, summary |-> <<>>,
     merkle_root |-> <<>>]

\* request-handling threads of the server, and a thread outside _enforce_rate_limit
Threads == {1, 2}

Idle == [at |-> "idle", key |-> Key("ingest", ""), t |-> 0, popped |-> 0]

InitServer(requests, frames) ==
    /\ now = 0
    /\ _rate_limit_history = [k \in Keys |-> <<>>]
    /\ store = <<>>
    /\ origin = <<>>
    /\ admissions = [k \in Keys |-> <<>>]
    /\ rejections = [k \in Keys |-> <<>>]
    /\ last = [op |-> "none", key |-> Key("ingest", ""), at |-> 0, req |-> NoRequest,
               admitted |-> FALSE, calls |-> <<>>, raised |-> "", status |-> 0,
               body |-> NoBody]
    /\ nreq = 0
    /\ workload \in requests
    /\ pc = [th \in Threads |-> Idle]
    /\ transactions \in frames
    /\ view = NoView

\* a server whose transaction file holds the header only
InitWith(requests) == InitServer(requests, {<<>>})

(***************************************************************************)
(* The ingestion pipeline: clients submit the run's ingest request, from   *)
(* either address, and the clock may jump past the rate window.            *)
(***************************************************************************)
Init == InitWith(Requests)

Elapse ==
    /\ now + UPLOAD_RATE_WINDOW_SECONDS + 1 <= MaxClock
    /\ Tick(UPLOAD_RATE_WINDOW_SECONDS + 1)

Ingest ==
    /\ nreq < MaxRequests
    /\ \E remote_addr \in RemoteAddrs : ingest_upload(remote_addr, workload)

Next == Elapse \/ Ingest

Spec == Init /\ [][Next]_vars

(***************************************************************************)
(* The rate limiter under sequential requests to the three rate-limited    *)
(* endpoints, with the clock advancing in steps inside the window.         *)
(***************************************************************************)
InitRate == InitWith({NoRequest})

\* the address the schema and template requests come from
ProbeAddrs == {""}

Pass ==
    \E dt \in TimeSteps :
        /\ now + dt <= MaxRateClock
        /\ Tick(dt)

Schema ==
    /\ nreq < MaxRateRequests
    /\ \E remote_addr \in ProbeAddrs : get_upload_schema(remote_addr)

Template ==
    /\ nreq < MaxRateRequests
    /\ \E remote_addr \in ProbeAddrs : get_upload_template(remote_addr)

IngestRate ==
    /\ nreq < MaxRateRequests
    /\ \E remote_addr \in RemoteAddrs : ingest_upload(remote_addr, workload)

NextRate == Pass \/ Schema \/ Template \/ IngestRate

SpecRate == InitRate /\ [][NextRate]_vars

(***************************************************************************)
(* _enforce_rate_limit called from concurrent request threads: nothing in  *)
(* the function or its callers takes a lock, so threads interleave between *)
(* the trimming loop, the count test and the append.                       *)
(***************************************************************************)
ConcKeys == {Key("ingest", ""), Key("schema", "")}

\* lines 354-358: the key, its deque and the time of this check
Enter(th) ==
    /\ pc[th].at = "idle"
    /\ nreq < MaxConcChecks
    /\ \E key \in ConcKeys : pc' = [pc EXCEPT ![th] = [at |-> "trim", key |-> key, t |-> now,
                                                             popped |-> 0]]
    /\ nreq' = nreq + 1
    /\ UNCHANGED <<now, _rate_limit_history, store, origin, admissions, rejections, last,
                   workload, transactions, view>>

\* lines 359-360: the trimming loop
TrimLoop(th) ==
    /\ pc[th].at = "trim"
    /\ _rate_limit_history' =
           [_rate_limit_history EXCEPT
               ![pc[th].key] = Trim(@, pc[th].t - UPLOAD_RATE_WINDOW_SECONDS)]
    /\ pc' = [pc EXCEPT ![th].at = "test",
                        ![th].popped =
                            Len(_rate_limit_history[pc[th].key])
                            - Len(Trim(_rate_limit_history[pc[th].key],
                                       pc[th].t - UPLOAD_RATE_WINDOW_SECONDS))]
    /\ UNCHANGED <<now, store, origin, admissions, rejections, last, nreq, workload,
                   transactions, view>>

\* lines 361-362: the count test, raising UploadRateLimitError
CountTest(th) ==
    /\ pc[th].at = "test"
    /\ IF Len(_rate_limit_history[pc[th].key]) >= UPLOAD_RATE_LIMIT
       THEN /\ rejections' = [rejections EXCEPT ![pc[th].key] = Append(@, pc[th].t)]
            /\ pc' = [pc EXCEPT ![th] = Idle]
       ELSE /\ pc' = [pc EXCEPT ![th].at = "append"]
            /\ UNCHANGED rejections
    /\ UNCHANGED <<now, _rate_limit_history, store, origin, admissions, last, nreq, workload,
                   transactions, view>>

\* line 363: history.append(now)
AppendNow(th) ==
    /\ pc[th].at = "append"
    /\ _rate_limit_history' = [_rate_limit_history EXCEPT ![pc[th].key] = Append(@, pc[th].t)]
    /\ admissions' = [admissions EXCEPT ![pc[th].key] = Append(@, pc[th].t)]
    /\ pc' = [pc EXCEPT ![th] = Idle]
    /\ UNCHANGED <<now, store, origin, rejections, last, nreq, workload, transactions,
                   view>>

PassConc ==
    \E dt \in TimeSteps :
        /\ now + dt <= MaxConcClock
        /\ Tick(dt)

NextConc ==
    \/ PassConc
    \/ \E th \in Threads : Enter(th)
    \/ \E th \in Threads : TrimLoop(th)
    \/ \E th \in Threads : CountTest(th)
    \/ \E th \in Threads : AppendNow(th)

SpecConc == InitRate /\ [][NextConc]_vars

(***************************************************************************)
(* Derived views.  transactions is the frame load_transactions returns for *)
(* the file at DATA_PATH: a sequence of TransactionRecords [InvoiceDate,    *)
(* CustomerID, Quantity, UnitPrice, TotalAmount], InvoiceDate in seconds    *)
(* after 2024-01-01T00:00:00, which is also the origin of now; the other    *)
(* fields are integers.  A hex digest is modelled collision-free as the     *)
(* one-element sequence holding what was hashed, [text, hex]: text for      *)
(* hashed characters, hex for a hashed concatenation of digests; every      *)
(* digest has the same length, so the concatenation of digests is the       *)
(* sequence of their contents.  The empty string is the empty sequence.     *)
(***************************************************************************)
Day == 24 * 60 * 60

\* str(pandas.Timestamp) for an instant of January 2024
TimestampText(ts) ==
    <<"2", "0", "2", "4", "-", "0", "1", "-">> \o Padded((ts \div Day) + 1, 2) \o <<" ">>
    \o Padded((ts % Day) \div 3600, 2) \o <<":">> \o Padded((ts % 3600) \div 60, 2)
    \o <<":">> \o Padded(ts % 60, 2)

\* "|".join of a list of texts
RECURSIVE Join(_)
Join(texts) ==
    IF Len(texts) = 1 THEN texts[1] ELSE texts[1] \o <<"|">> \o Join(Tail(texts))

\* hashlib.sha256(text.encode("utf-8")).hexdigest() of characters, and of hex digests
sha256(text) == <<[text |-> text, hex |-> <<>>]>>
sha256_hex(combined) == <<[text |-> <<>>, hex |-> combined]>>

\* the leaf text without the TotalAmount field
LeafText_NoTotal(row) ==
    Join(<<TimestampText(row.InvoiceDate), IntText(row.CustomerID), IntText(row.Quantity),
           IntText(row.UnitPrice)>>)

\* lines 314-322: the pipe-joined default strings of the five fields
LeafText(row) ==
    Join(<<TimestampText(row.InvoiceDate), IntText(row.CustomerID), IntText(row.Quantity),
           IntText(row.UnitPrice), IntText(row.TotalAmount)>>)

\* lines 312-325: one leaf per record, in frame order
Leaves(df) == [i \in 1..Len(df) |-> sha256(LeafText(df[i]))]

\* an odd level gets its first node once more
WithOddDuplicate_First(nodes) ==
    IF Len(nodes) % 2 = 1 THEN Append(nodes, nodes[1]) ELSE nodes

\* lines 332-333: an odd level gets its last node once more
WithOddDuplicate(nodes) ==
    IF Len(nodes) % 2 = 1 THEN Append(nodes, nodes[Len(nodes)]) ELSE nodes

\* lines 334-337: the parents of a level, whose length is even here
PairUp(nodes) ==
    [i \in 1..(Len(nodes) \div 2) |-> sha256_hex(nodes[2 * i - 1] \o nodes[2 * i])]

\* lines 331-338: one round of the while loop
NextLevel(nodes) == PairUp(WithOddDuplicate(nodes))

\* lines 331-340: the loop, and nodes[0] when one node is left
RECURSIVE MerkleLoop(_)
MerkleLoop(nodes) == IF Len(nodes) > 1 THEN MerkleLoop(NextLevel(nodes)) ELSE nodes[1]

\* lines 308-340
compute_merkle_root(df) ==
    IF df = <<>> THEN <<>> ELSE MerkleLoop(Leaves(df))

\* lines 73-79
SEGMENT_OFFERS ==
    [segment \in {"Top Spenders", "Loyal Customers", "At Risk Customers", "New Customers",
                  "Low Value Customers"} |->
        CASE segment = "Top Spenders" -> "VIP 15% Discount"
          [] segment = "Loyal Customers" -> "Early Access Deals"
          [] segment = "At Risk Customers" -> "10% Comeback Coupon"
          [] segment = "New Customers" -> "Welcome Offer"
          [] segment = "Low Value Customers" -> "Bundle Discount"]

Least(S) == CHOOSE x \in S : \A y \in S : x <= y
Greatest(S) == CHOOSE x \in S : \A y \in S : y <= x

\* the keys of groupby("CustomerID"), which sorts them
RECURSIVE Ascending(_)
Ascending(S) == IF S = {} THEN <<>> ELSE <<Least(S)>> \o Ascending(S \ {Least(S)})

\* the rows of one customer
RowsOf(df, customer) == {i \in 1..Len(df) : df[i].CustomerID = customer}

\* lines 248-249: whole days between now and the customer's latest InvoiceDate
recency(df, customer, utcnow) ==
    (utcnow - Greatest({df[i].InvoiceDate : i \in RowsOf(df, customer)})) \div Day

\* line 256: the sum of TotalAmount over the customer's rows
RECURSIVE monetary(_, _)
monetary(df, customer) ==
    IF df = <<>> THEN 0
    ELSE (IF Head(df).CustomerID = customer THEN Head(df).TotalAmount ELSE 0)
         + monetary(Tail(df), customer)

\* lines 251-259: one row per customer
GroupRow(df, customer, utcnow) ==
    [CustomerID |-> customer, recency |-> recency(df, customer, utcnow),
     frequency |-> Cardinality(RowsOf(df, customer)), monetary |-> monetary(df, customer)]

GroupRows(df, ids, utcnow) == [i \in 1..Len(ids) |-> GroupRow(df, ids[i], utcnow)]

Grouped(df, utcnow) ==
    GroupRows(df, Ascending({df[i].CustomerID : i \in 1..Len(df)}), utcnow)

\* the k-th smallest of a column
Rank(values, k) ==
    CHOOSE x \in {values[i] : i \in 1..Len(values)} :
        /\ Cardinality({i \in 1..Len(values) : values[i] < x}) < k
        /\ k <= Cardinality({i \in 1..Len(values) : values[i] <= x})

\* np.percentile(values, q), linear interpolation, times 100 and computed exactly:
\* the position q/100 * (n - 1) has the whole part lo and the hundredths frac
Interpolated(values, lo, frac) ==
    100 * Rank(values, lo + 1)
    + (IF frac = 0 THEN 0 ELSE frac * (Rank(values, lo + 2) - Rank(values, lo + 1)))

Percentile(values, q) ==
    Interpolated(values, (q * (Len(values) - 1)) \div 100, (q * (Len(values) - 1)) % 100)

Column(grouped, name) == [i \in 1..Len(grouped) |-> grouped[i][name]]

\* lines 262-267, every threshold times 100
Thresholds(grouped) ==
    [recency_low |-> Percentile(Column(grouped, "recency"), 30),
     recency_high |-> Percentile(Column(grouped, "recency"), 70),
     freq_high |-> Percentile(Column(grouped, "frequency"), 80),
     freq_low |-> Percentile(Column(grouped, "frequency"), 30),
     monetary_high |-> Percentile(Column(grouped, "monetary"), 80),
     monetary_low |-> Percentile(Column(grouped, "monetary"), 35)]

\* assign_segment with the loyalty test before the monetary test
assign_segment_LoyalFirst(row, th) ==
    IF 100 * row.frequency >= th.freq_high /\ 100 * row.recency <= th.recency_high
    THEN "Loyal Customers"
    ELSE IF 100 * row.monetary >= th.monetary_high THEN "Top Spenders"
    ELSE IF 100 * row.recency >= th.recency_high THEN "At Risk Customers"
    ELSE IF 100 * row.recency <= th.recency_low /\ 100 * row.frequency <= th.freq_low
         THEN "New Customers"
    ELSE IF 100 * row.monetary <= th.monetary_low THEN "Low Value Customers"
    ELSE "Loyal Customers"

\* assign_segment with the at-risk test before the loyalty test
assign_segment_RiskFirst(row, th) ==
    IF 100 * row.monetary >= th.monetary_high THEN "Top Spenders"
    ELSE IF 100 * row.recency >= th.recency_high THEN "At Risk Customers"
    ELSE IF 100 * row.frequency >= th.freq_high /\ 100 * row.recency <= th.recency_high
         THEN "Loyal Customers"
    ELSE IF 100 * row.recency <= th.recency_low /\ 100 * row.frequency <= th.freq_low
         THEN "New Customers"
    ELSE IF 100 * row.monetary <= th.monetary_low THEN "Low Value Customers"
    ELSE "Loyal Customers"

\* lines 269-280
assign_segment(row, th) ==
    IF 100 * row.monetary >= th.monetary_high THEN "Top Spenders"
    ELSE IF 100 * row.frequency >= th.freq_high /\ 100 * row.recency <= th.recency_high
         THEN "Loyal Customers"
    ELSE IF 100 * row.recency >= th.recency_high THEN "At Risk Customers"
    ELSE IF 100 * row.recency <= th.recency_low /\ 100 * row.frequency <= th.freq_low
         THEN "New Customers"
    ELSE IF 100 * row.monetary <= th.monetary_low THEN "Low Value Customers"
    ELSE "Loyal Customers"

\* lines 282-283: the segment and offer columns
WithSegment(row, segment) ==
    [CustomerID |-> row.CustomerID, recency |-> row.recency, frequency |-> row.frequency,
     monetary |-> row.monetary, segment |-> segment, offer |-> SEGMENT_OFFERS[segment]]

Labelled(grouped, th) ==
    [i \in 1..Len(grouped) |-> WithSegment(grouped[i], assign_segment(grouped[i], th))]

\* Place for a sort in ascending order of monetary
Place_Ascending(grouped, i) ==
    1 + Cardinality({j \in 1..Len(grouped) : grouped[j].monetary < grouped[i].monetary})
      + Cardinality({j \in 1..(i - 1) : grouped[j].monetary = grouped[i].monetary})

\* line 285: sort_values("monetary", ascending=False); rows of equal monetary keep
\* the order of the grouped frame
Place(grouped, i) ==
    1 + Cardinality({j \in 1..Len(grouped) : grouped[j].monetary > grouped[i].monetary})
      + Cardinality({j \in 1..(i - 1) : grouped[j].monetary = grouped[i].monetary})

SortByMonetary(grouped) ==
    [k \in 1..Len(grouped) |-> grouped[CHOOSE i \in 1..Len(grouped) : Place(grouped, i) = k]]

\* lines 287-295: groupby("segment").size(), the segments in sorted order
SegmentsSorted ==
    <<"At Risk Customers", "Low Value Customers", "Loyal Customers", "New Customers",
      "Top Spenders">>

SegmentCount(grouped, segment) ==
    Cardinality({i \in 1..Len(grouped) : grouped[i].segment = segment})

NonEmptySegment(entry) == entry.count > 0

Summary(grouped) ==
    SelectSeq([k \in 1..Len(SegmentsSorted) |->
                  [segment |-> SegmentsSorted[k],
                   count |-> SegmentCount(grouped, SegmentsSorted[k]),
                   suggested_offer |-> SEGMENT_OFFERS[SegmentsSorted[k]]]],
              NonEmptySegment)

\* lines 282-297 on the grouped frame with its segments
Results(labelled) == [customers |-> SortByMonetary(labelled), summary |-> Summary(labelled)]

Segmented(grouped) == Results(Labelled(grouped, Thresholds(grouped)))

\* build_rfm_segments that raises on an empty frame instead of returning empty lists
build_rfm_segments_NoEmptyCase(df, utcnow) ==
    IF df = <<>> THEN [raised |-> TRUE, customers |-> <<>>, summary |-> <<>>]
    ELSE [raised |-> FALSE] @@ Segmented(Grouped(df, utcnow))

\* lines 243-297; utcnow is datetime.utcnow() at line 247
build_rfm_segments(df, utcnow) ==
    IF df = <<>> THEN [raised |-> FALSE, customers |-> <<>>, summary |-> <<>>]
    ELSE [raised |-> FALSE] @@ Segmented(Grouped(df, utcnow))

\* the instant of now = 0: 2024-01-11T06:00:00
ServerStart == (10 * Day) + (Day \div 4)

SegmentsView(result, at) ==
    [op |-> "segments", at |-> at, raised |-> result.raised, customers |-> result.customers,
     summary |-> result.summary, merkle_root |-> <<>>]

\* lines 782-789: GET /api/segments
get_segments ==
    /\ view' = SegmentsView(build_rfm_segments(transactions, ServerStart + now), now)
    /\ UNCHANGED <<now, _rate_limit_history, store, origin, admissions, rejections, last, nreq,
                   workload, pc, transactions>>

\* get_blockchain_info whose odd-level append lands in the frame itself
get_blockchain_info_Aliased ==
    /\ view' = [op |-> "blockchain", at |-> now, raised |-> FALSE, customers |-> <<>>,
                summary |-> <<>>, merkle_root |-> compute_merkle_root(transactions)]
    /\ transactions' = WithOddDuplicate(transactions)
    /\ UNCHANGED <<now, _rate_limit_history, store, origin, admissions, rejections, last, nreq,
                   workload, pc>>

\* lines 791-799: GET /api/blockchain; file_hash, the digest of the raw bytes of the
\* file, is left out of the response
get_blockchain_info ==
    /\ view' = [op |-> "blockchain", at |-> now, raised |-> FALSE, customers |-> <<>>,
                summary |-> <<>>, merkle_root |-> compute_merkle_root(transactions)]
    /\ UNCHANGED <<now, _rate_limit_history, store, origin, admissions, rejections, last, nreq,
                   workload, pc, transactions>>

(***************************************************************************)
(* The derived views queried over a fixed transaction file while time      *)
(* passes.  The file holds the purchases of up to MaxCustomers customers,  *)
(* customer by customer; a customer's purchases follow one of the profiles *)
(* below, and customers are numbered in the order of their profiles, the   *)
(* segmentation depending on CustomerID only through the grouping.         *)
(***************************************************************************)
PurchaseTimes == <<0, Day \div 2, 3 * Day>>
PurchaseCounts == <<1, 2>>
Quantities == <<1, 3>>
UnitPrices == <<5>>

ProfileIds == 0..((Len(PurchaseTimes) * Len(PurchaseCounts) * Len(Quantities)) - 1)

\* a profile: when the latest purchase was made, how many purchases, of what quantity
ProfileOf(p) ==
    [latest |-> PurchaseTimes[(p % Len(PurchaseTimes)) + 1],
     count |-> PurchaseCounts[((p \div Len(PurchaseTimes)) % Len(PurchaseCounts)) + 1],
     quantity |-> Quantities[(p \div (Len(PurchaseTimes) * Len(PurchaseCounts))) + 1]]

\* the purchases of a customer: the earlier ones at the first instant, then the latest
Purchases(profile, customer) ==
    [i \in 1..profile.count |->
        [InvoiceDate |-> IF i = profile.count THEN profile.latest ELSE PurchaseTimes[1],
         CustomerID |-> customer, Quantity |-> profile.quantity, UnitPrice |-> UnitPrices[1],
         TotalAmount |-> profile.quantity * UnitPrices[1]]]

\* the non-decreasing sequences of n profile ids, none below lo
RECURSIVE NonDecreasing(_, _)
NonDecreasing(n, lo) ==
    IF n = 0 THEN {<<>>}
    ELSE UNION {{<<p>> \o rest : rest \in NonDecreasing(n - 1, p)} :
                    p \in {q \in ProfileIds : q >= lo}}

RECURSIVE FrameOf(_, _)
FrameOf(profiles, first) ==
    IF profiles = <<>> THEN <<>>
    ELSE Purchases(ProfileOf(Head(profiles)), first) \o FrameOf(Tail(profiles), first + 1)

Frames == {FrameOf(profiles, 1) : profiles \in UNION {NonDecreasing(n, 0) : n \in 0..MaxCustomers}}

InitViews == InitServer({NoRequest}, Frames)

PassViews ==
    /\ now + (Day \div 2) <= MaxViewsClock
    /\ Tick(Day \div 2)

NextViews == PassViews \/ get_segments \/ get_blockchain_info

SpecViews == InitViews /\ [][NextViews]_vars

(***************************************************************************)
(* The same queries over a transaction file that holds up to MaxRecords    *)
(* records in any order, repeats included.                                 *)
(***************************************************************************)
LedgerRecords ==
    {[InvoiceDate |-> 0, CustomerID |-> 1, Quantity |-> 1, UnitPrice |-> 5, TotalAmount |-> 5],
     [InvoiceDate |-> Day \div 2, CustomerID |-> 1, Quantity |-> 1, UnitPrice |-> 5,
      TotalAmount |-> 5],
     [InvoiceDate |-> 0, CustomerID |-> 12, Quantity |-> 3, UnitPrice |-> 5,
      TotalAmount |-> 15]}

Ledgers == UNION {[1..n -> LedgerRecords] : n \in 0..MaxRecords}

InitLedger == InitServer({NoRequest}, Ledgers)

SpecLedger == InitLedger /\ [][NextViews]_vars

(***************************************************************************)
(* Properties of the ingestion pipeline.                                   *)
(***************************************************************************)
\* the stored row is the sanitized form r.sanitized of a row validated without errors
StoredRowOf(stored, r) == r.errors = <<>> /\ stored = r.sanitized

\* payload has the shape that passes every check before the rows are validated
WellFormed(payload) ==
    /\ payload.dict
    /\ payload.columns = List(UPLOAD_EXPECTED_COLUMNS)
    /\ payload.data.k = "list"
    /\ Len(payload.data.v) \in 1..MAX_UPLOAD_ROWS

\* how many times the handler called name
Calls(calls, name) == Cardinality({i \in 1..Len(calls) : calls[i] = name})

\* how many timestamps of the history equal t
Tokens(history, t) == Cardinality({i \in 1..Len(history) : history[i] = t})

\* C1: every batch in the store came from a request without structural, field or
\* metadata error and holds the sanitized form of every row of that request, in order
\* (so a request with any such error added nothing, and no batch is partial).
C1_NoPartialBatch ==
    /\ Len(origin) = Len(store)
    /\ \A i \in 1..Len(store) :
          /\ WellFormed(origin[i])
          /\ _sanitize_meta(origin[i].meta, 0, 0).ok
          /\ Len(store[i].data_json) = Len(origin[i].data.v)
          /\ store[i].row_count = Len(origin[i].data.v)
          /\ \A j \in 1..Len(origin[i].data.v) :
                StoredRowOf(store[i].data_json[j], _validate_row(origin[i].data.v[j], j))

\* a batch of two rows is stored, the second one changed by sanitizing
C1_Witness ==
    \E i \in 1..Len(store) :
        /\ Len(store[i].data_json) = 2
        /\ origin[i].data.v[2] = PaddedRow

(***************************************************************************)
(* Properties of the rate limiter.                                         *)
(***************************************************************************)
\* the checks of the last request's key admitted before the last request
AdmittedBefore ==
    IF last.admitted
    THEN SubSeq(admissions[last.key], 1, Len(admissions[last.key]) - 1)
    ELSE admissions[last.key]

\* how many of the timestamps are not older than t - UPLOAD_RATE_WINDOW_SECONDS
InWindow(timestamps, t) ==
    Cardinality({i \in 1..Len(timestamps) : timestamps[i] >= t - UPLOAD_RATE_WINDOW_SECONDS})

\* C2: a check at time t is admitted exactly when fewer than UPLOAD_RATE_LIMIT
\* previously admitted checks of its key have a timestamp not older than
\* t - UPLOAD_RATE_WINDOW_SECONDS.
C2_AdmittedExactlyWhen ==
    last.op # "none" =>
        (last.admitted <=> InWindow(AdmittedBefore, last.at) < UPLOAD_RATE_LIMIT)

\* three checks of a key admitted within one window, a fourth rejected in that window,
\* and a check after the window of the first three has elapsed admitted again
C2_Witness ==
    /\ last.admitted
    /\ Len(admissions[last.key]) = UPLOAD_RATE_LIMIT + 1
    /\ admissions[last.key][UPLOAD_RATE_LIMIT] - admissions[last.key][1]
          <= UPLOAD_RATE_WINDOW_SECONDS
    /\ rejections[last.key] # <<>>
    /\ rejections[last.key][1] - admissions[last.key][1] <= UPLOAD_RATE_WINDOW_SECONDS
    /\ last.at > admissions[last.key][UPLOAD_RATE_LIMIT] + UPLOAD_RATE_WINDOW_SECONDS

\* C3: under concurrent checks of one key, interleaved between the trimming loop, the
\* count test and the append, the key's history never holds more than
\* UPLOAD_RATE_LIMIT timestamps of one window.
C3_HistoryWithinLimit ==
    \A k \in Keys :
        \A i \in 1..Len(_rate_limit_history[k]) :
            Cardinality({j \in 1..Len(_rate_limit_history[k]) :
                            /\ _rate_limit_history[k][j] >= _rate_limit_history[k][i]
                            /\ _rate_limit_history[k][j] <=
                                  _rate_limit_history[k][i] + UPLOAD_RATE_WINDOW_SECONDS})
                <= UPLOAD_RATE_LIMIT

\* C4: an ingest request consults the rate limiter of its "ingest" key before anything
\* else, and when the limiter rejects it the handler calls neither the validator nor
\* the storage.
C4_RateLimiterFirst ==
    last.op = "ingest" =>
        /\ last.key[1] = "ingest"
        /\ last.calls # <<>>
        /\ last.calls[1] = "_enforce_rate_limit"
        /\ Calls(last.calls, "_enforce_rate_limit") = 1
        /\ ~last.admitted => last.calls = <<"_enforce_rate_limit">>

\* a valid ingest request is rejected by the rate limiter
C4_Witness ==
    /\ last.op = "ingest"
    /\ ~last.admitted
    /\ _validate_upload_payload(last.req.payload, last.at).ok
    /\ last.req.mimetype_json /\ ~last.req.oversized /\ last.req.parses

\* C5: a request the validator rejects leaves the store as it was, and every admitted
\* ingest request, whatever its outcome, adds exactly one timestamp (its own) to the
\* history of its key, which is still there when the handler is done.
C5_TokenConsumed ==
    [][(nreq' = nreq + 1 /\ last'.op = "ingest" /\ last'.admitted) =>
          /\ Tokens(_rate_limit_history'[last'.key], now)
                = Tokens(_rate_limit_history[last'.key], now) + 1
          /\ Len(_rate_limit_history'[last'.key])
                = InWindow(_rate_limit_history[last'.key], now) + 1
          /\ last'.status = 422 => store' = store]_vars

\* an admitted request was rejected by the validator for a field error; its timestamp
\* is in the history
C5_Witness ==
    /\ last.op = "ingest"
    /\ last.admitted
    /\ last.status = 422
    /\ \E i \in 1..Len(last.body.errors) : last.body.errors[i].col = "InvoiceDate"
    /\ Tokens(_rate_limit_history[last.key], last.at) >= 1

\* the last request was an admitted ingest request whose body reached the validator
Validated ==
    /\ last.op = "ingest"
    /\ last.admitted
    /\ last.req.mimetype_json /\ ~last.req.oversized /\ last.req.parses

\* ... and its payload passed validation
ValidatedOk == Validated /\ _validate_upload_payload(last.req.payload, last.at).ok

\* the storage initialisation of the last request failed
InitFailed ==
    /\ Calls(last.calls, "_init_upload_storage") = 1
    /\ Calls(last.calls, "_persist_upload") = 0

Min(a, b) == IF a < b THEN a ELSE b

\* the rows of the last request
LastRows == last.req.payload.data.v

\* C7: when validation and persistence succeed, the response is a success carrying
\* the identifier of the batch just stored, rowCount = the number of rows of the
\* request, preview = the first min(10, rowCount) sanitized rows in request order, and
\* the sanitized metadata (which is also the stored batch's metadata).
C7_SuccessResult ==
    (last.op = "ingest" /\ last.status = 201) =>
        /\ last.raised = ""
        /\ last.body.success
        /\ store # <<>>
        /\ last.body.uploadId = store[Len(store)].upload_id
        /\ last.body.rowCount = Len(LastRows)
        /\ Len(last.body.preview) = Min(PREVIEW_ROWS, Len(LastRows))
        /\ \A j \in 1..Len(last.body.preview) :
              StoredRowOf(last.body.preview[j], _validate_row(LastRows[j], j))
        /\ last.body.meta = _sanitize_meta(last.req.payload.meta, Len(LastRows), last.at).meta
        /\ last.body.meta = store[Len(store)].meta_json

\* a batch of more than PREVIEW_ROWS rows is stored and answered with a preview
C7_Witness ==
    /\ last.op = "ingest"
    /\ last.status = 201
    /\ Len(LastRows) > PREVIEW_ROWS
    /\ Len(last.body.preview) = PREVIEW_ROWS

\* C8: when the payload passes validation but storing it fails, the response is a
\* failure that says the upload was not persisted, with a status other than the
\* validation status 422.
C8_StorageErrorReported ==
    (ValidatedOk /\ last.status # 201) =>
        /\ last.raised = ""
        /\ last.status = 500
        /\ ~last.body.success
        /\ last.body.errors = <<Err(0, "", "Failed to persist upload.")>>

\* C9: every failing outcome of an ingest request is a response whose body has
\* success = false and a non-empty errors list; no exception leaves the handler.
C9_FailuresReturned ==
    (last.op = "ingest" /\ last.status # 201) =>
        /\ last.raised = ""
        /\ ~last.body.success
        /\ last.body.errors # <<>>

\* the cell of row under column is a blank required value or fails to parse as the
\* column's type
BadCell(row, column) ==
    IF _is_blank(RowGet(row, column.key)) THEN column.required
    ELSE ~_coerce_value(RowGet(row, column.key), column.type).ok

\* <<row index, column key>> of the bad cells among the first n columns, in column order
RECURSIVE CellLoci(_, _, _)
CellLoci(row, row_index, n) ==
    IF n = 0 THEN <<>>
    ELSE CellLoci(row, row_index, n - 1)
         \o (IF BadCell(row, UPLOAD_SCHEMA[n]) THEN <<<<row_index, UPLOAD_SCHEMA[n].key>>>>
             ELSE <<>>)

\* the bad cells of the first n rows in row-major order; a row that is not an object
\* has no cells and stands with its row index alone when lone is TRUE
RECURSIVE RowLoci(_, _, _)
RowLoci(data, n, lone) ==
    IF n = 0 THEN <<>>
    ELSE RowLoci(data, n - 1, lone)
         \o (IF data[n].dict THEN CellLoci(data[n], n, Len(UPLOAD_SCHEMA))
             ELSE IF lone THEN <<<<n, "">>>> ELSE <<>>)

\* the row index and column key each entry of an error list names
Loci(errors) == [i \in 1..Len(errors) |-> <<errors[i].row, errors[i].col>>]

\* the last request's rows were validated and the response lists exactly expected
ReportsExactly(expected) ==
    (Validated /\ WellFormed(last.req.payload)) =>
        IF expected # <<>>
        THEN last.status = 422 /\ Loci(last.body.errors) = expected
        ELSE last.status = 422 => Loci(last.body.errors) = <<<<0, "meta.uploadTime">>>>

\* C10 as stated: for a batch that passes the header and row-count checks the error
\* list holds, in row-major order, exactly one entry for each bad cell, each entry
\* naming the 1-based row index and the column key.
C10_OneEntryPerBadCell == ReportsExactly(RowLoci(LastRows, Len(LastRows), FALSE))

\* C10, amended: ... exactly one entry for each bad cell of the rows that are objects,
\* naming the 1-based row index and the column key, and exactly one entry, naming the
\* row index only, for each row that is not an object.
C10_OneEntryPerBadCellOrRow == ReportsExactly(RowLoci(LastRows, Len(LastRows), TRUE))

\* a batch with five bad cells in row 1 and a bad date in row 2 is rejected
C10_Witness ==
    /\ Validated
    /\ last.status = 422
    /\ Len(last.body.errors) = 6
    /\ last.body.errors[1].row = 1
    /\ last.body.errors[6] = Err(2, "InvoiceDate", "must be a valid date (YYYY-MM-DD).")

\* the column keys the entries of errors name in row row_index
NamedKeys(errors, row_index) ==
    {errors[i].col : i \in {j \in 1..Len(errors) : errors[j].row = row_index}}

\* row with the cells named by keys replaced by valid values; a row that is not an
\* object and is named is replaced by a valid row
CorrectedRow(row, keys) ==
    IF keys = {} THEN row
    ELSE IF ~row.dict THEN GoodRow
    ELSE [dict |-> TRUE,
          f |-> [k \in DOMAIN row.f \cup keys |-> IF k \in keys THEN GoodRow.f[k] ELSE row.f[k]]]

\* meta with uploadTime replaced by a valid timestamp when errors names it
CorrectedMeta(meta, errors) ==
    IF "meta.uploadTime" \in NamedKeys(errors, 0)
    THEN [meta EXCEPT !.f.uploadTime = Str(T_Timestamp)]
    ELSE meta

\* the resubmission of payload with exactly the items named in errors corrected
Corrected(payload, errors) ==
    [payload EXCEPT
        !.data = List([i \in 1..Len(payload.data.v) |->
                          CorrectedRow(payload.data.v[i], NamedKeys(errors, i))]),
        !.meta = CorrectedMeta(payload.meta, errors)]

\* C11: the error list of a rejected validation is complete: the payload resubmitted
\* with exactly the items named in the list corrected passes validation (so a bad cell
\* and an unparseable meta.uploadTime are reported in the same rejection).
C11_CompleteErrorList ==
    (Validated /\ WellFormed(last.req.payload) /\ last.status = 422) =>
        _validate_upload_payload(Corrected(last.req.payload, last.body.errors), last.at).ok

\* text is a calendar date written YYYY-MM-DD
IsDateText(text) ==
    /\ Len(text) = 10
    /\ \A i \in 1..10 : IF i \in {5, 8} THEN text[i] = "-" ELSE IsDigit(text[i])
    /\ ValidDate(DigitsValue(SubSeq(text, 1, 4)), DigitsValue(SubSeq(text, 6, 7)),
                 DigitsValue(SubSeq(text, 9, 10)))

\* value is a sanitized value of the declared type
TypedValue(value, type) ==
    IF type = "int" THEN value.t = "int" /\ value.v \in Int
    ELSE IF type = "float"
    THEN value.t = "float" /\ value.v.m \in Int /\ value.v.d \in Nat
    ELSE IF type = "date" THEN value.t = "str" /\ IsDateText(value.s)
    ELSE value.t = "str" /\ Len(value.s) <= MAX_STRING_LENGTH

\* every row has exactly the schema's keys, each with a value of the column's type
TypedRows(rows) ==
    \A j \in 1..Len(rows) :
        /\ DOMAIN rows[j] = {UPLOAD_SCHEMA[i].key : i \in 1..Len(UPLOAD_SCHEMA)}
        /\ \A i \in 1..Len(UPLOAD_SCHEMA) :
              TypedValue(rows[j][UPLOAD_SCHEMA[i].key], UPLOAD_SCHEMA[i].type)

\* C12: every row returned for a payload that passes validation has exactly the
\* schema's column keys, each with a value of its column's declared type: an integer,
\* a number, a string, or a calendar date written YYYY-MM-DD.
C12_TypedRows ==
    ValidatedOk => TypedRows(_validate_upload_payload(last.req.payload, last.at).rows)

\* a payload passes validation with a date given as 31/12/2024 and numbers given as text
C12_Witness ==
    /\ ValidatedOk
    /\ \E j \in 1..Len(LastRows) : LastRows[j] = PaddedRow

\* repr(x) of a float x kept as the decimal v.m / 10^v.d: the integer part, a point and
\* the v.d decimals, ".0" when there are none
FloatText(v) ==
    (IF v.m < 0 THEN <<"-">> ELSE <<>>)
    \o NatText((IF v.m < 0 THEN -v.m ELSE v.m) \div Pow10(v.d))
    \o <<".">>
    \o (IF v.d = 0 THEN <<"0">> ELSE Padded((IF v.m < 0 THEN -v.m ELSE v.m) % Pow10(v.d), v.d))

\* a sanitized value as it arrives when it is submitted again
RawOf(value) ==
    IF value.t = "int" THEN Num(IntText(value.v))
    ELSE IF value.t = "float" THEN Num(FloatText(value.v))
    ELSE Str(value.s)

\* the payload whose data are the sanitized rows
Resubmitted(rows) ==
    Payload(List(UPLOAD_EXPECTED_COLUMNS),
            List([j \in 1..Len(rows) |->
                    [dict |-> TRUE, f |-> [k \in DOMAIN rows[j] |-> RawOf(rows[j][k])]]]),
            NoMeta)

\* validating the sanitized rows of v again gives w
SameRows(v, w) == w.ok /\ w.rows = v.rows

\* validated passed, and validating its rows again passes and returns the same rows
Revalidates(validated, t) ==
    validated.ok => SameRows(validated, _validate_upload_payload(Resubmitted(validated.rows), t))

\* C13: validation is idempotent on rows: the sanitized rows of a payload that passes
\* validation, validated again, pass and come back identical.
C13_Idempotent ==
    Validated => Revalidates(_validate_upload_payload(last.req.payload, last.at), last.at)

\* the segment and offer a segments response gives each customer
Assignment(customers) ==
    {<<customers[i].CustomerID, customers[i].segment, customers[i].offer>> :
        i \in 1..Len(customers)}

\* C14: two segment queries over the same transaction file, made at any two times,
\* assign every customer the same segment and offer and return the same summary.
C14_SegmentsPure ==
    [][(view.op = "segments" /\ view'.op = "segments")
        => (/\ Assignment(view'.customers) = Assignment(view.customers)
            /\ view'.summary = view.summary)]_vars

\* the five hashed fields, and a record sequence with two positions exchanged or one
\* field value replaced
HashedFields == {"InvoiceDate", "CustomerID", "Quantity", "UnitPrice", "TotalAmount"}

Swapped(df, i, j) ==
    [k \in 1..Len(df) |-> IF k = i THEN df[j] ELSE IF k = j THEN df[i] ELSE df[k]]

Changed(df, i, field, value) == [df EXCEPT ![i][field] = value]

Deltas == {1, 9, Day}

\* C15: with a collision-free hash, exchanging two records that differ in a hashed
\* field changes the Merkle root, and so does replacing any hashed field value of
\* any record by another value; the root is computed over the order given.
C15_RootSensitive ==
    view.op = "blockchain" =>
        /\ \A i, j \in 1..Len(transactions) :
               transactions[i] # transactions[j]
                   => compute_merkle_root(Swapped(transactions, i, j)) # view.merkle_root
        /\ \A i \in 1..Len(transactions) : \A field \in HashedFields : \A delta \in Deltas :
               compute_merkle_root(
                   Changed(transactions, i, field, transactions[i][field] + delta))
                   # view.merkle_root

C15_Witness ==
    /\ view.op = "blockchain"
    /\ Len(transactions) >= 5
    /\ \E i, j \in 1..Len(transactions) : i + 1 < j /\ transactions[i] # transactions[j]
    /\ \E i, j \in 1..Len(transactions) : i < j /\ transactions[i] = transactions[j]

C17_EmptyViews ==
    transactions = <<>> =>
        /\ view.op = "segments"
               => (~view.raised /\ view.customers = <<>> /\ view.summary = <<>>)
        /\ view.op = "blockchain" => (~view.raised /\ view.merkle_root = <<>>)

C17_Witness == transactions = <<>> /\ view.op = "segments" /\ view.at > 0

\* the levels the Merkle loop goes through, the leaves first
RECURSIVE LevelsOf(_)
LevelsOf(nodes) ==
    IF Len(nodes) > 1 THEN <<nodes>> \o LevelsOf(NextLevel(nodes)) ELSE <<nodes>>

LeafHash(i) == sha256(LeafText(transactions[i]))

OddRule(level, parents) ==
    (Len(level) > 1 /\ Len(level) % 2 = 1)
        => /\ Len(parents) = (Len(level) + 1) \div 2
           /\ parents[Len(parents)] = sha256_hex(level[Len(level)] \o level[Len(level)])

\* C18: a level with an odd number k > 1 of nodes pairs its last node with itself:
\* the next level has (k+1)/2 nodes, the last being the hash of the last child's hex
\* string concatenated with itself; 3 records give the parents hash(h1+h2) and
\* hash(h3+h3) and the root hash of their concatenation; 1 record gives its leaf hash.
C18_OddNodeRule ==
    (view.op = "blockchain" /\ transactions # <<>>) =>
        /\ \A l \in 1..(Len(LevelsOf(Leaves(transactions))) - 1) :
               OddRule(LevelsOf(Leaves(transactions))[l], LevelsOf(Leaves(transactions))[l + 1])
        /\ LevelsOf(Leaves(transactions))[Len(LevelsOf(Leaves(transactions)))]
               = <<view.merkle_root>>
        /\ Len(transactions) = 3
               => /\ LevelsOf(Leaves(transactions))[2]
                       = <<sha256_hex(LeafHash(1) \o LeafHash(2)),
                           sha256_hex(LeafHash(3) \o LeafHash(3))>>
                  /\ view.merkle_root
                       = sha256_hex(sha256_hex(LeafHash(1) \o LeafHash(2))
                                    \o sha256_hex(LeafHash(3) \o LeafHash(3)))
        /\ Len(transactions) = 1 => view.merkle_root = LeafHash(1)

C18_Witness ==
    /\ view.op = "blockchain"
    /\ Len(transactions) = 3
    /\ \A i, j \in 1..3 : i # j => transactions[i] # transactions[j]

\* the sum of TotalAmount over the records of a customer, and the customer who spent
\* strictly more than every other one
RECURSIVE SpentIn(_, _)
SpentIn(n, customer) ==
    IF n = 0 THEN 0
    ELSE SpentIn(n - 1, customer)
         + (IF transactions[n].CustomerID = customer THEN transactions[n].TotalAmount ELSE 0)

Spent(customer) == SpentIn(Len(transactions), customer)

CustomerIDs == {transactions[i].CustomerID : i \in 1..Len(transactions)}

TopSpender(customer) == \A other \in CustomerIDs \ {customer} : Spent(other) < Spent(customer)

\* C19: when the transactions are of at least 5 distinct customers, the customer whose
\* monetary total is strictly greater than every other customer's is assigned
\* "Top Spenders", whatever its recency and frequency.
C19_TopSpender ==
    (view.op = "segments" /\ Cardinality(CustomerIDs) >= 5) =>
        \A i \in 1..Len(view.customers) :
            TopSpender(view.customers[i].CustomerID)
                => view.customers[i].segment = "Top Spenders"

\* the top spender is the customer seen longest ago, as often as anyone, and at the
\* second query of the day
C19_Witness ==
    /\ view.op = "segments"
    /\ view.at > 0
    /\ Cardinality(CustomerIDs) >= 5
    /\ \E i \in 1..Len(view.customers) :
           /\ TopSpender(view.customers[i].CustomerID)
           /\ \A j \in 1..Len(view.customers) :
                  /\ j # i => view.customers[j].recency < view.customers[i].recency
                  /\ view.customers[j].frequency <= view.customers[i].frequency

\* the six rules in their order, on a row of the response and the thresholds of its
\* population, and the segment each rule gives
Rule(k, row, th) ==
    CASE k = 1 -> 100 * row.monetary >= th.monetary_high
      [] k = 2 -> 100 * row.frequency >= th.freq_high /\ 100 * row.recency <= th.recency_high
      [] k = 3 -> 100 * row.recency >= th.recency_high
      [] k = 4 -> 100 * row.recency <= th.recency_low /\ 100 * row.frequency <= th.freq_low
      [] k = 5 -> 100 * row.monetary <= th.monetary_low
      [] k = 6 -> TRUE

RuleSegment ==
    <<"Top Spenders", "Loyal Customers", "At Risk Customers", "New Customers",
      "Low Value Customers", "Loyal Customers">>

FirstMatch(row, th) == Least({k \in 1..6 : Rule(k, row, th)})

\* C20: every customer gets the segment of the first rule it matches, in the order
\* 1 monetary >= monetary-high, 2 frequency >= frequency-high and recency <=
\* recency-high, 3 recency >= recency-high, 4 recency <= recency-low and frequency <=
\* frequency-low, 5 monetary <= monetary-low, 6 default "Loyal Customers"; the segment
\* is one of the five names with an offer, and the offer is that segment's.
C20_FirstMatchWins ==
    view.op = "segments" =>
        \A i \in 1..Len(view.customers) :
            /\ view.customers[i].segment
                   = RuleSegment[FirstMatch(view.customers[i], Thresholds(view.customers))]
            /\ view.customers[i].segment \in DOMAIN SEGMENT_OFFERS
            /\ view.customers[i].offer = SEGMENT_OFFERS[view.customers[i].segment]

\* a customer that matches rules 2, 3 and 5 and is given the segment of rule 2
C20_Witness ==
    /\ view.op = "segments"
    /\ \E i \in 1..Len(view.customers) :
           /\ {k \in 1..5 : Rule(k, view.customers[i], Thresholds(view.customers))} = {2, 3, 5}
           /\ view.customers[i].segment = "Loyal Customers"

\* the listed customers of a segment, and the sum of the counts of a summary
Listed(segment) == {i \in 1..Len(view.customers) : view.customers[i].segment = segment}

RECURSIVE CountSum(_)
CountSum(summary) == IF summary = <<>> THEN 0 ELSE Head(summary).count + CountSum(Tail(summary))

\* C21: the segment query lists every distinct CustomerID of the transactions exactly
\* once, in non-increasing order of monetary; the summary has one entry per segment
\* with at least one customer, its count the number of listed customers of that
\* segment, and the counts sum to the number of customers.
C21_ListAndSummary ==
    view.op = "segments" =>
        /\ {view.customers[i].CustomerID : i \in 1..Len(view.customers)} = CustomerIDs
        /\ Len(view.customers) = Cardinality(CustomerIDs)
        /\ \A i \in 1..Len(view.customers) :
               view.customers[i].monetary = Spent(view.customers[i].CustomerID)
        /\ \A i \in 1..(Len(view.customers) - 1) :
               view.customers[i].monetary >= view.customers[i + 1].monetary
        /\ {view.summary[k].segment : k \in 1..Len(view.summary)}
               = {view.customers[i].segment : i \in 1..Len(view.customers)}
        /\ \A k, l \in 1..Len(view.summary) :
               view.summary[k].segment = view.summary[l].segment => k = l
        /\ \A k \in 1..Len(view.summary) :
               view.summary[k].count = Cardinality(Listed(view.summary[k].segment))
        /\ CountSum(view.summary) = Cardinality(CustomerIDs)

\* five customers, two of them with the same monetary, in three segments or more
C21_Witness ==
    /\ view.op = "segments"
    /\ Len(view.customers) = 5
    /\ \E i \in 1..4 : view.customers[i].monetary = view.customers[i + 1].monetary
    /\ view.customers[1].monetary > view.customers[5].monetary
    /\ Len(view.summary) >= 3

\* the identifiers of the stored batches
StoredIds == {store[i].upload_id : i \in 1..Len(store)}

\* C22: the store is append-only: every batch stored earlier stays where it was with
\* the same rows and metadata, a new batch comes last under an identifier no stored
\* batch has, the stored identifiers are pairwise distinct, and every persistence
\* call that returns stores a further batch of the request's payload, whether or not
\* the same payload is stored already.
C22_AppendOnly ==
    /\ [](Cardinality(StoredIds) = Len(store))
    /\ [][/\ Len(store') \in {Len(store), Len(store) + 1}
          /\ \A i \in 1..Len(store) : store'[i] = store[i]
          /\ Len(store') > Len(store) => store'[Len(store')].upload_id \notin StoredIds
          /\ (/\ nreq' = nreq + 1
              /\ Calls(last'.calls, "_persist_upload") = 1
              /\ last'.raised = "")
                 => /\ Len(store') = Len(store) + 1
                    /\ origin'[Len(origin')] = last'.req.payload
                    /\ store'[Len(store')].upload_id = last'.body.uploadId]_vars

\* the same payload stored twice at the same instant: equal rows and metadata under
\* two identifiers
C22_Witness ==
    /\ Len(store) = 2
    /\ origin[1] = origin[2]
    /\ store[1].data_json = store[2].data_json
    /\ store[1].meta_json = store[2].meta_json
    /\ store[1].upload_id # store[2].upload_id

\* the column list of the last request is not the schema's key list
ColumnsDiffer == last.req.payload.dict /\ last.req.payload.columns # List(UPLOAD_EXPECTED_COLUMNS)

\* C23: when the submitted column list differs from the schema's key list (a key
\* missing, added, renamed or out of place), the batch is rejected with exactly one
\* structural error and no entry of a row or of the metadata, whatever the rows and
\* the metadata hold, and nothing is persisted.
C23_ColumnsFirst ==
    (Validated /\ ColumnsDiffer) =>
        /\ last.status = 422
        /\ last.body.errors = <<Err(0, "", "Columns must exactly match the schema.")>>
        /\ Calls(last.calls, "_persist_upload") = 0

\* an added key, an invalid row and an invalid upload time in the same request
C23_Witness ==
    /\ Validated
    /\ last.req.payload.columns = List(ExtraColumn)
    /\ last.req.payload.data.v = <<BadDateRow>>
    /\ last.req.payload.meta = BadTimeMeta
    /\ last.status = 422

\* the check of thread th is at position from before the step and at position to after
Moves(th, from, to) == pc[th].at = from /\ pc'[th].at = to

\* C24: a rejected admission check leaves the key's history as it was before the
\* check, nothing appended and nothing removed; an admitted check removes only
\* timestamps older than its time minus the window, from the front, and appends
\* exactly one timestamp, its time, at the back.
C24_CheckFrame ==
    [][\A th \in Threads :
          /\ Moves(th, "test", "idle")
                 => (pc[th].popped = 0 /\ _rate_limit_history' = _rate_limit_history)
          /\ Moves(th, "trim", "test")
                 => \E n \in 0..Len(_rate_limit_history[pc[th].key]) :
                        /\ _rate_limit_history'[pc[th].key]
                               = SubSeq(_rate_limit_history[pc[th].key], n + 1,
                                        Len(_rate_limit_history[pc[th].key]))
                        /\ \A i \in 1..n :
                               _rate_limit_history[pc[th].key][i]
                                   < pc[th].t - UPLOAD_RATE_WINDOW_SECONDS
          /\ Moves(th, "append", "idle")
                 => _rate_limit_history'[pc[th].key]
                        = Append(_rate_limit_history[pc[th].key], pc[th].t)]_vars

\* C25: a check works on the history of its own (bucket, client) key: it leaves the
\* history of every other key unchanged, the key is the one of the request's bucket,
\* and it is rejected only when its own key was admitted UPLOAD_RATE_LIMIT times
\* within the window, whatever the other keys hold.
C25_KeysIndependent ==
    [][nreq' = nreq + 1
        => /\ last'.key[1] = last'.op
           /\ \A k \in Keys \ {last'.key} : _rate_limit_history'[k] = _rate_limit_history[k]
           /\ ~last'.admitted
                  => InWindow(admissions[last'.key], now) >= UPLOAD_RATE_LIMIT]_vars

\* the "schema" bucket of a client is exhausted and has rejected a request, and the
\* same client's ingest request is admitted within the same window
C25_Witness ==
    /\ last.op = "ingest"
    /\ last.key = Key("ingest", "")
    /\ last.admitted
    /\ rejections[Key("schema", "")] # <<>>
    /\ InWindow(_rate_limit_history[Key("schema", "")], now) = UPLOAD_RATE_LIMIT
    /\ Len(_rate_limit_history[Key("ingest", "")]) = 1

\* the metadata of a request with rowCount and serverReceivedAt set by the caller, and
\* what a caller may put there
CallerKeys(meta) == IF meta.dict THEN DOMAIN meta.f ELSE {}

Spoofed(meta, row_count, received_at) ==
    [dict |-> TRUE,
     f |-> [k \in CallerKeys(meta) \cup {"rowCount", "serverReceivedAt"} |->
               IF k = "rowCount" THEN row_count
               ELSE IF k = "serverReceivedAt" THEN received_at
               ELSE meta.f[k]]]

Spoofs == {<<Num(<<"0">>), Str(T_31_12_2024)>>, <<Str(<<"m", "a", "n", "y">>), Null>>}

\* the validation v of payload at t stamps the metadata itself, whatever the caller sent
ServerStamped(v, payload, t) ==
    v.ok =>
        /\ v.meta.rowCount = Len(v.rows)
        /\ v.meta.serverReceivedAt = ServerTime(t)
        /\ \A spoof \in Spoofs :
               _validate_upload_payload(
                   [payload EXCEPT !.meta = Spoofed(@, spoof[1], spoof[2])], t).meta = v.meta

\* C26: the returned rowCount and serverReceivedAt do not depend on what the caller
\* put in meta: a payload that differs from the validated one only in meta.rowCount
\* and meta.serverReceivedAt, validated at the same instant, yields the same
\* sanitized metadata, and rowCount is the number of sanitized rows.
C26_ServerStamped ==
    Validated =>
        ServerStamped(_validate_upload_payload(last.req.payload, last.at),
                      last.req.payload, last.at)

\* the caller claimed 99 rows received on 2024-01-01 for one row sent later
C26_Witness ==
    /\ ValidatedOk
    /\ last.req.payload.meta = FullMeta
    /\ last.at > 0
    /\ last.body.meta.rowCount = 1

\* the rows of the last request are valid: without its metadata the payload validates
RowsValid ==
    /\ Validated
    /\ _validate_upload_payload([last.req.payload EXCEPT !.meta = NoMeta], last.at).ok

\* the caller's metadata has the key
Supplied(key) == last.req.payload.meta.dict /\ key \in DOMAIN last.req.payload.meta.f

\* the caller's uploadTime parses as ISO-8601
UploadTimeParses ==
    FromIsoFormat(ReplaceZ(_sanitize_string(last.req.payload.meta.f.uploadTime))).ok

NonEmpty(text) == text # <<>>

\* the non-empty trimmed texts of the caller's warnings, in their order
TrimmedWarnings(warnings_raw) ==
    SelectSeq([i \in 1..Len(warnings_raw.v) |-> _sanitize_string(warnings_raw.v[i])],
              NonEmpty)

\* the last request was refused for its metadata and nothing was stored
MetadataRejected ==
    /\ last.status = 422
    /\ last.body.errors = <<Err(0, "meta.uploadTime", "must be ISO-8601 formatted.")>>
    /\ Calls(last.calls, "_persist_upload") = 0

\* the metadata of a validation with no uploadTime from the caller
AbsentTimeMeta(v, t) ==
    /\ v.ok
    /\ v.meta.uploadTime = ServerTime(t)
    /\ (~Supplied("originalFilename")
           \/ _sanitize_string(last.req.payload.meta.f.originalFilename) = <<>>)
          => v.meta.originalFilename = UnknownFilename
    /\ v.meta.warnings = IF Supplied("warnings")
                         THEN TrimmedWarnings(last.req.payload.meta.f.warnings)
                         ELSE <<>>

\* C27: when all rows are valid but a caller-supplied meta.uploadTime is present and
\* does not parse as ISO-8601, the batch is rejected with a metadata error and nothing
\* is persisted; when uploadTime is absent the batch is accepted, a blank filename
\* becomes the placeholder, and warnings keep only the non-empty trimmed strings in
\* their original order.
C27_UploadTimeChecked ==
    RowsValid =>
        /\ (Supplied("uploadTime") /\ ~UploadTimeParses) => MetadataRejected
        /\ ~Supplied("uploadTime")
              => AbsentTimeMeta(_validate_upload_payload(last.req.payload, last.at), last.at)

\* C28: under sequential checks with a non-decreasing clock, every key's history holds
\* at most UPLOAD_RATE_LIMIT timestamps in non-decreasing order, none of them later
\* than the clock, and after a check every timestamp retained for its key is within
\* UPLOAD_RATE_WINDOW_SECONDS of the check's time (no other step changes the history,
\* so this holds until the key's next check).
C28_HistoryBounded ==
    /\ \A k \in Keys :
          /\ Len(_rate_limit_history[k]) <= UPLOAD_RATE_LIMIT
          /\ \A i \in 1..Len(_rate_limit_history[k]) :
                /\ _rate_limit_history[k][i] <= now
                /\ i > 1 => _rate_limit_history[k][i - 1] <= _rate_limit_history[k][i]
    /\ last.op # "none" =>
          \A i \in 1..Len(_rate_limit_history[last.key]) :
              /\ _rate_limit_history[last.key][i] >= last.at - UPLOAD_RATE_WINDOW_SECONDS
              /\ _rate_limit_history[last.key][i] <= last.at

\* a check rejected on a full history whose oldest timestamp is exactly one window old,
\* after an earlier check of the key trimmed older ones
C28_Witness ==
    /\ last.op # "none"
    /\ ~last.admitted
    /\ Len(_rate_limit_history[last.key]) = UPLOAD_RATE_LIMIT
    /\ _rate_limit_history[last.key][1] = last.at - UPLOAD_RATE_WINDOW_SECONDS
    /\ _rate_limit_history[last.key][1] < _rate_limit_history[last.key][2]
    /\ Len(admissions[last.key]) > UPLOAD_RATE_LIMIT

\* C29: with a collision-free hash the Merkle root identifies the record sequence: no
\* other non-empty sequence of records, whether it differs in content, in order or in
\* length (such as the same records with the last one appended once more), has the
\* root of the transaction file.
C29_RootIdentifies ==
    (view.op = "blockchain" /\ transactions # <<>>) =>
        \A other \in Ledgers \ {<<>>, transactions} :
            compute_merkle_root(other) # view.merkle_root
====
